---- MODULE Spec2Model ----
(***************************************************************************)
(* systrack-api: the background job subsystem.                             *)
(*                                                                         *)
(*   Spec       the sync worker (server/worker/serviceSyncWorker.ts) fed   *)
(*              by the manual sync route (server/routes/syncRoute.ts)      *)
(*              through the BullMQ queue 'systrack-service-sync'           *)
(*              (server/lib/queue.ts), the remote API answering well.      *)
(*   SpecRetry  the same worker with the remote API failing in every way   *)
(*              it can, and the queue's retry policy.                      *)
(*   SpecSched  the cron scheduler (ServiceSyncScheduler) producing jobs   *)
(*              into the same queue.                                       *)
(*   SpecCrud   the worker while the service routes update and soft-delete *)
(*              the services its jobs are about.                           *)
(*   SpecFailed the queue's failed set filling up, one job after another.  *)
(*   SpecChat   the chat worker (server/worker/whatsappWorker.ts) relaying *)
(*              message and command jobs through the message broker        *)
(*              (server/whatsapp/services/messageBroker.ts) to the chat    *)
(*              client process (server/whatsapp/index.ts).                 *)
(*   SpecMessage  the same for message jobs, taken one after the other.    *)
(*   SpecBroker the broker called by the trigger route, the publisher's    *)
(*              connection going down and up; SpecBrokerLive adds the      *)
(*              fairness of the steps the code schedules.                  *)
(*   SpecProcess  SpecChat with the rejection of an unawaited promise      *)
(*              ending the worker process (server/worker/index.ts).        *)
(*   SpecCleanup  SpecBroker with the entries of the broker growing old.   *)
(*   SpecStop   SpecSched started and stopped (server/scheduler/index.ts), *)
(*              its jobs processed by the sync worker.                     *)
(*   SpecBot    the chat client's bot (server/whatsapp/bot.ts) handling    *)
(*              inbound messages.                                          *)
(*   SpecCommand  the bot's command handler (CommandHandler.handleCommand).*)
(*   SpecLookup the commands' lookup of a service by id or name            *)
(*              (server/whatsapp/services/serviceManager.ts and            *)
(*              ServiceDataFetcher in server/whatsapp/index.ts).           *)
(*   SpecRepublish  the broker with the requests of the route that retries *)
(*              the failed messages (MessageBroker.retryFailedMessages).   *)
(*   SpecSend   the chat client's process handling send commands step by   *)
(*              step, getting ready, disconnected and shut down.           *)
(*   SpecClient SpecSend with the messages that come in from the chats.    *)
(*   SpecSubscribe  the broker from its construction on, its subscription  *)
(*              to the result channel not yet acknowledged.                *)
(*   SpecGroups the calls of MessageBroker.getAvailableGroups.             *)
(*   SpecEndpoint  the sync worker while the service route changes the     *)
(*              endpoints and keys of the services.                        *)
(*                                                                         *)
(* Every await of the TypeScript code is a step boundary: the code between *)
(* two awaits runs without interruption on the single JavaScript thread,   *)
(* and one database statement or one queue command is atomic.              *)
(***************************************************************************)
EXTENDS Integers, Sequences, FiniteSets, Bags, TLC

VARIABLES
  servicesTable,     \* services rows: id -> [type, status, deletedAt, endpoint]
  serviceLogsTable,  \* service_logs rows: a bag of rows, the row ids left out
  jobs,              \* queue 'systrack-service-sync': job id -> job
  completed,         \* the queue's completed set, oldest first
  failed,            \* the queue's failed set, oldest first
  now,               \* Date.now(), in clock ticks
  handler,           \* the worker's concurrent processServiceSyncJob calls
  lastSync,          \* per target: the last sync run that returned normally
  cronTask,          \* ServiceSyncScheduler.cronTask
  isRunning,         \* ServiceSyncScheduler.isRunning
  run,               \* the calls of scheduleServiceSyncJobs
  chatJobs,          \* queues 'systrack-whatsapp-message' and '-command'
  call,              \* per chat job: the sendTriggerToGroup call of its attempt
  messageQueue,      \* MessageBroker.messageQueue: message id -> entry
  transportUp,       \* the broker's publisher connection is up
  inbox,             \* send commands the chat client received, not handled yet
  results,           \* result envelopes published, not delivered yet
  chatLog,           \* chat client: message id -> what it sent and answered
  workerProcess,     \* the worker process (server/worker/index.ts)
  expired,           \* ids of the broker's entries older than the maximum age
  inbound,           \* chat client: the inbound message and what it led to
  command,           \* CommandHandler.handleCommand: its argument and result
  lookup,            \* the chat commands' lookup of a service by identifier
  retryCalls,        \* the calls of MessageBroker.retryFailedMessages
  isReady,           \* WhatsAppBot.isReady
  isSubscribed,      \* the broker's subscription to the result channels
  groups,            \* MessageBroker.groupsResponse and getAvailableGroups
  clientProcess,     \* the chat client's process
  sending            \* the chat client's handleRedisMessage calls in progress

vars == <<servicesTable, serviceLogsTable, jobs, completed, failed, now,
          handler, lastSync, cronTask, isRunning, run, chatJobs, call,
          messageQueue, transportUp, inbox, results, chatLog, workerProcess,
          expired, inbound, command, lookup, retryCalls, isReady,
          isSubscribed, groups, clientProcess, sending>>

dbVars    == <<servicesTable, serviceLogsTable>>
queueVars == <<jobs, completed, failed>>
schedVars == <<cronTask, isRunning, run>>
syncVars  == <<handler, lastSync>>
chatVars  == <<chatJobs, call, messageQueue, transportUp, inbox, results,
               chatLog>>
procVars  == <<workerProcess>>
botVars   == <<inbound, command, lookup>>
clientVars == <<isReady, clientProcess, sending>>
ipcVars   == <<retryCalls, isSubscribed, groups, clientVars>>
restVars  == <<procVars, expired, botVars, ipcVars>>

----------------------------------------------------------------------------
(* Bounds of the model *)

Targets   == {1, 2}        \* ids of the rows of the services table
RemoteHistory == <<100, 101>>  \* the ids of the remote API's records, oldest first
MaxNow  == 1               \* the clock runs from 0 to MaxNow
MaxJobs == 2               \* jobs the manual route adds
MaxFailNow == 2  \* the clock's end where one job after the other fails
MaxCalls == 2    \* calls of scheduleServiceSyncJobs in flight at once
RandomSteps == 2 \* Math.random() is k / RandomSteps for a k below RandomSteps
TicksPerDay == 2 \* clock ticks in one calendar day
MaxChatJobs == 1 \* jobs added to the two chat queues together
MaxCallers == 2  \* callers of sendTriggerToGroup: chat jobs and route requests
MaxRetryCalls == 2  \* requests of POST /trigger/retry-failed in flight at once
MaxGroupCalls == 2  \* calls of getAvailableGroups

(* Program constants *)

VPS            == 2
SHARED_HOSTING == 3
concurrency      == 5
attempts         == 3
backoffDelay     == 2000
removeOnComplete == 10
removeOnFail     == 5
jitterMs         == 30000
messageConcurrency == 3
commandConcurrency == 2
whatsappAttempts   == 3
maxRetries         == 3

----------------------------------------------------------------------------
(* Pure helpers *)

Range(s) == {s[i] : i \in DOMAIN s}

RecordIds == Range(RemoteHistory)

RECURSIVE Pow2(_)
Pow2(n) == IF n <= 0 THEN 1 ELSE 2 * Pow2(n - 1)

RECURSIVE Filter(_, _)
\* Array.prototype.filter with the predicate "the element is in keep"
Filter(s, keep) ==
  IF s = <<>> THEN <<>>
  ELSE IF Head(s) \in keep THEN <<Head(s)>> \o Filter(Tail(s), keep)
       ELSE Filter(Tail(s), keep)

\* the last n elements of s (all of s when it is shorter)
LastN(s, n) ==
  IF Len(s) <= n THEN s ELSE SubSeq(s, Len(s) - n + 1, Len(s))

----------------------------------------------------------------------------
(* The store *)

Types == {VPS, SHARED_HOSTING}

\* a row of services: its type, status and deleted_at, and the endpoint of
\* the remote API with its key, as they are when the service is created
ServiceRow ==
  [type : Types, status : {0, 1}, deletedAt : BOOLEAN,
   resStatusApiUrl : {"https://a"}, resStatusApiKey : {"key-a"}]

\* the query without its type filter
ActiveServices ==
  {t \in Targets : servicesTable[t].status = 1 /\ ~servicesTable[t].deletedAt}

\* where status = 1 and type = SHARED_HOSTING and deleted_at is null
SyncableServices ==
  {t \in Targets : /\ servicesTable[t].status = 1
                   /\ servicesTable[t].type = SHARED_HOSTING
                   /\ ~servicesTable[t].deletedAt}

\* the lookup with the deleted_at test turned round
SelectDeletedRecordIds(t, ids) ==
  {row.recordId :
     row \in {r \in BagToSet(serviceLogsTable) :
                /\ r.serviceId = t
                /\ r.recordId \in ids
                /\ r.deletedAt}}

\* select record_id from service_logs
\*  where service_id = t and record_id in ids and deleted_at is null
SelectExistingRecordIds(t, ids) ==
  {row.recordId :
     row \in {r \in BagToSet(serviceLogsTable) :
                /\ r.serviceId = t
                /\ r.recordId \in ids
                /\ ~r.deletedAt}}

\* the values handed to db.insert: one row per new record
ValuesToInsert(t, newRecords) ==
  [i \in DOMAIN newRecords |->
     [serviceId |-> t, recordId |-> newRecords[i], deletedAt |-> FALSE]]

RECURSIVE SeqToBag(_)
SeqToBag(rows) ==
  IF rows = <<>> THEN EmptyBag
  ELSE SetToBag({Head(rows)}) (+) SeqToBag(Tail(rows))

\* a statement that leaves only the rows handed in
ReplaceRows(table, rows) == SeqToBag(rows)

\* insert into service_logs values ...: the table has no unique index on
\* (service_id, record_id), so every row handed in is stored
InsertRows(table, rows) == table (+) SeqToBag(rows)

\* the rows of target t, how many they are, and the external record ids
\* stored for it
RowsOf(t) == {r \in BagToSet(serviceLogsTable) : r.serviceId = t}

RECURSIVE CopiesOfAll(_)
CopiesOfAll(rows) ==
  IF rows = {} THEN 0
  ELSE LET r == CHOOSE x \in rows : TRUE
       IN CopiesIn(r, serviceLogsTable) + CopiesOfAll(rows \ {r})

RowCount(t) == CopiesOfAll(RowsOf(t))

StoredIds(t) == {r.recordId : r \in RowsOf(t)}

----------------------------------------------------------------------------
(* The service routes: PUT /services/:id and DELETE /services/:id *)

\* PUT /services/:id: a service that is not soft-deleted gets another type
\* or status
UpdateService(t) ==
  /\ ~servicesTable[t].deletedAt
  /\ \E ty \in Types, st \in {0, 1} :
       /\ <<ty, st>> # <<servicesTable[t].type, servicesTable[t].status>>
       /\ servicesTable' =
            [servicesTable EXCEPT ![t].type = ty, ![t].status = st]
  /\ UNCHANGED <<chatVars, restVars, serviceLogsTable, queueVars, now, syncVars, schedVars>>

\* PUT /services/:id with resStatusApiUrl or resStatusApiKey: the service
\* gets another endpoint, another key, or both; every service is changed
\* once
UpdateEndpoint(t) ==
  /\ ~servicesTable[t].deletedAt
  /\ servicesTable[t].resStatusApiUrl = "https://a"
  /\ servicesTable[t].resStatusApiKey = "key-a"
  /\ \E url \in {"https://a", "https://b"}, key \in {"key-a", "key-b"} :
       /\ <<url, key>> # <<servicesTable[t].resStatusApiUrl,
                           servicesTable[t].resStatusApiKey>>
       /\ servicesTable' = [servicesTable EXCEPT ![t].resStatusApiUrl = url,
                                                 ![t].resStatusApiKey = key]
  /\ UNCHANGED <<chatVars, restVars, serviceLogsTable, queueVars, now, syncVars, schedVars>>

\* DELETE /services/:id: the soft delete
DeleteService(t) ==
  /\ ~servicesTable[t].deletedAt
  /\ servicesTable' = [servicesTable EXCEPT ![t].deletedAt = TRUE]
  /\ UNCHANGED <<chatVars, restVars, serviceLogsTable, queueVars, now, syncVars, schedVars>>

----------------------------------------------------------------------------
(* The clock *)

\* time passes; the clock is read for job ids only, so it moves on only from
\* an instant at which a job was added
TickTo(max) ==
  /\ \E id \in DOMAIN jobs : id[3] = now
  /\ now < max
  /\ now' = now + 1
  /\ UNCHANGED <<chatVars, restVars, dbVars, queueVars, syncVars, schedVars>>

Tick == TickTo(MaxNow)

----------------------------------------------------------------------------
(* The queue 'systrack-service-sync' (BullMQ) with its defaultJobOptions *)

NoJob == <<>>

\* `manual-sync-${service.id}-${Date.now()}` and `daily-sync-${service.id}-${Date.now()}`
JobId(prefix, t, ts) == <<prefix, t, ts>>

\* queue.ts lines 7-13: the job's data holds the service's id and the URL
\* and key of its row as the enqueuing code has read them
NewJob(name, t, delay) ==
  [name |-> name, serviceId |-> t, delay |-> delay,
   resStatusApiUrl |-> servicesTable[t].resStatusApiUrl,
   resStatusApiKey |-> servicesTable[t].resStatusApiKey,
   state |-> IF delay > 0 THEN "delayed" ELSE "waiting",
   attemptsStarted |-> 0, attemptsMade |-> 0, progress |-> 0,
   backoffs |-> <<>>]

\* Queue.add: a job whose jobId is already in the queue is not added again
QueueAdd(id, job) ==
  IF id \in DOMAIN jobs THEN jobs ELSE (id :> job) @@ jobs


\* a fixed backoff
FixedBackoffDelay(attemptsMade) == backoffDelay

\* exponential backoff: 2 ^ (attemptsMade - 1) * delay
BackoffDelay(attemptsMade) == Pow2(attemptsMade - 1) * backoffDelay

\* the retry test off by one
ShouldRetryOnceMore(attemptsMade) == attemptsMade <= attempts

\* a job is retried while the attempts made stay below `attempts`
ShouldRetry(attemptsMade) == attemptsMade < attempts

\* a queue that keeps one finished job less than it is told to
RetainedOneLess(finishedSet, keep) == LastN(finishedSet, keep - 1)

\* removeOnComplete / removeOnFail: keep the newest `keep` finished jobs
Retained(finishedSet, keep) == LastN(finishedSet, keep)

\* the job map without the jobs a trimmed finished set dropped
DropRemoved(js, before, after) ==
  [id \in DOMAIN js \ (Range(before) \ Range(after)) |-> js[id]]

\* Queue.getFailed()
getFailed == {id \in DOMAIN jobs : id \in Range(failed)}

\* a delayed job becomes visible to the worker once its delay has elapsed
PromoteDelayed(id) ==
  /\ id \in DOMAIN jobs
  /\ jobs[id].state = "delayed"
  /\ jobs' = [jobs EXCEPT ![id].state = "waiting"]
  /\ UNCHANGED <<chatVars, restVars, dbVars, completed, failed, now, syncVars, schedVars>>

----------------------------------------------------------------------------
(* The manual sync route: POST /sync/service/:id *)

AddManualSyncJob(t) ==
  /\ t \in SyncableServices
  /\ JobId("manual-sync", t, now) \notin DOMAIN jobs
  /\ jobs' = QueueAdd(JobId("manual-sync", t, now),
                      NewJob("manual-sync-service", t, 0))
  /\ UNCHANGED <<chatVars, restVars, dbVars, completed, failed, now, syncVars, schedVars>>

\* requests while the queue holds fewer than MaxJobs jobs
ManualSyncService(t) ==
  /\ Cardinality(DOMAIN jobs) < MaxJobs
  /\ AddManualSyncJob(t)

\* requests made one after the other, each after the jobs before it failed
ManualSyncOneByOne(t) ==
  /\ \A id \in DOMAIN jobs : jobs[id].state = "failed"
  /\ AddManualSyncJob(t)

----------------------------------------------------------------------------
(* The sync worker: ServiceSyncWorker.processServiceSyncJob *)

Handlers == 1 .. concurrency

\* the remote record lists: the remote history grows at its end and the API
\* answers with what it holds so far, no id twice (the id is the remote
\* system's primary key)
Payloads == {SubSeq(RemoteHistory, 1, n) : n \in 0 .. Len(RemoteHistory)}

\* the answers of GET {resStatusApiUrl}/resource-usage/history;
\* ok is Response.ok, success and data are the fields of the JSON body
Responses == [ok : BOOLEAN, success : BOOLEAN, data : Payloads]

\* the answers of a remote API that is up: 2xx with success = true
HealthyResponses == {resp \in Responses : resp.ok /\ resp.success}

NoSync == [valid |-> FALSE, history |-> <<>>, rows |-> 0]

Idle == [pc |-> "idle", job |-> NoJob, response |-> "none",
         history |-> <<>>, newRecords |-> <<>>, inserted |-> <<>>,
         before |-> {}, others |-> {}, prev |-> NoSync,
         service |-> [url |-> "", key |-> ""],
         requested |-> [url |-> "", key |-> ""]]

Busy(h) == handler[h].pc # "idle"

ServiceOf(h) == jobs[handler[h].job].serviceId

\* a handler that trusts the type and status the job was enqueued with
ServiceNotDeleted(t) == ~servicesTable[t].deletedAt

\* lines 30-52: the service is read again; a missing, deleted, non shared
\* hosting or inactive service ends the job normally
ServiceIsSyncable(t) ==
  /\ ~servicesTable[t].deletedAt
  /\ servicesTable[t].type = SHARED_HOSTING
  /\ servicesTable[t].status # 0

\* the worker takes a waiting job and calls processServiceSyncJob in a free
\* slot, which reads the service (lines 23-52). The slots are alike, so the
\* first free one stands for any of them.
ProcessJob(h, id) ==
  /\ ~Busy(h)
  /\ \A g \in Handlers : g < h => Busy(g)
  /\ id \in DOMAIN jobs
  /\ jobs[id].state = "waiting"
  /\ jobs' = [jobs EXCEPT ![id].state = "active",
                          ![id].attemptsStarted = @ + 1]
  /\ handler' = [handler EXCEPT ![h] =
       [Idle EXCEPT !.pc = IF ServiceIsSyncable(jobs[id].serviceId)
                             THEN "fetch" ELSE "return",
                    !.job = id,
                    !.service =
                       [url |-> servicesTable[jobs[id].serviceId].resStatusApiUrl,
                        key |-> servicesTable[jobs[id].serviceId].resStatusApiKey],
                    !.before = StoredIds(jobs[id].serviceId),
                    !.prev = lastSync[jobs[id].serviceId]]]
  /\ UNCHANGED <<chatVars, restVars, dbVars, completed, failed, now, lastSync, schedVars>>

\* what the remote API answered
ResponseKind(resp) ==
  IF ~resp.ok THEN "non2xx"
  ELSE IF ~resp.success THEN "unsuccessful"
  ELSE "ok"

\* the handler without the test of the body's success flag
HistoryOutcomeUnchecked(resp) ==
  IF ~resp.ok THEN [pc |-> "throw", history |-> <<>>]
  ELSE IF Len(resp.data) = 0 THEN [pc |-> "return", history |-> <<>>]
  ELSE [pc |-> "lookup", history |-> resp.data]

\* lines 61-77: what the handler does with the answer: it throws on a
\* non-2xx status and on success = false, returns on an empty list, and
\* goes on with the list otherwise
HistoryOutcome(resp) ==
  IF ~resp.ok THEN [pc |-> "throw", history |-> <<>>]
  ELSE IF ~resp.success THEN [pc |-> "throw", history |-> <<>>]
  ELSE IF Len(resp.data) = 0 THEN [pc |-> "return", history |-> <<>>]
  ELSE [pc |-> "lookup", history |-> resp.data]

\* a fetch with the URL and the key the job carries
PayloadEndpoint(h) ==
  [url |-> jobs[handler[h].job].resStatusApiUrl,
   key |-> jobs[handler[h].job].resStatusApiKey]

\* lines 55-59: the URL and the x-api-key header of the fetch are fields of
\* the row the handler has read, service.resStatusApiUrl and
\* service.resStatusApiKey
FetchEndpoint(h) == handler[h].service

AfterResponse(h, resp) ==
  [handler[h] EXCEPT !.response = ResponseKind(resp),
                     !.requested = FetchEndpoint(h),
                     !.pc = HistoryOutcome(resp).pc,
                     !.history = HistoryOutcome(resp).history]

\* lines 55-77: fetch and json(), the remote API answering with one of resps
FetchHistory(h, resps) ==
  /\ handler[h].pc = "fetch"
  /\ \E resp \in resps :
       handler' = [handler EXCEPT ![h] = AfterResponse(h, resp)]
  /\ UNCHANGED <<chatVars, restVars, dbVars, queueVars, now, lastSync, schedVars>>

\* lines 55-59 and 120-123: fetch itself rejects (the network is down)
FetchRejected(h) ==
  /\ handler[h].pc = "fetch"
  /\ handler' = [handler EXCEPT ![h].pc = "throw", ![h].response = "error",
                                ![h].requested = FetchEndpoint(h)]
  /\ UNCHANGED <<chatVars, restVars, dbVars, queueVars, now, lastSync, schedVars>>

\* the record list without the filter on the ids already stored
AllRecords(historyDataList, existingRecordIds) == historyDataList

\* lines 94-96: the records whose id the lookup did not return
NewRecords(historyDataList, existingRecordIds) ==
  Filter(historyDataList, Range(historyDataList) \ existingRecordIds)

\* lines 79-101: one batched lookup of the ids already stored for the service
LookupExisting(h) ==
  /\ handler[h].pc = "lookup"
  /\ LET listRecordIds == Range(handler[h].history)
         existing == SelectExistingRecordIds(ServiceOf(h), listRecordIds)
         new == NewRecords(handler[h].history, existing)
     IN handler' = [handler EXCEPT
          ![h].newRecords = new,
          ![h].pc = IF Len(new) = 0 THEN "return" ELSE "insert"]
  /\ UNCHANGED <<chatVars, restVars, dbVars, queueVars, now, lastSync, schedVars>>

\* lines 103-112: db.insert(serviceLogsTable).values(valuesToInsert)
InsertRecords(h) ==
  /\ handler[h].pc = "insert"
  /\ serviceLogsTable' =
       InsertRows(serviceLogsTable,
                  ValuesToInsert(ServiceOf(h), handler[h].newRecords))
  /\ handler' = [g \in Handlers |->
       IF g = h
         THEN [handler[g] EXCEPT !.pc = "progress",
                                 !.inserted = handler[h].newRecords]
       ELSE IF Busy(g) /\ ServiceOf(g) = ServiceOf(h)
         THEN [handler[g] EXCEPT !.others = @ \cup Range(handler[h].newRecords)]
       ELSE handler[g]]
  /\ lastSync' = [lastSync EXCEPT ![ServiceOf(h)] = NoSync]
  /\ UNCHANGED <<chatVars, restVars, servicesTable, queueVars, now, schedVars>>

\* line 119: job.updateProgress(100)
UpdateProgress(h) ==
  /\ handler[h].pc = "progress"
  /\ jobs' = [jobs EXCEPT ![handler[h].job].progress = 100]
  /\ handler' = [handler EXCEPT ![h].pc = "return"]
  /\ UNCHANGED <<chatVars, restVars, dbVars, completed, failed, now, lastSync, schedVars>>

\* the handler returned: the worker moves the job to completed
JobCompleted(h) ==
  /\ handler[h].pc = "return"
  /\ LET id == handler[h].job
         set == Append(completed, id)
         kept == Retained(set, removeOnComplete)
     IN /\ completed' = kept
        /\ jobs' = DropRemoved([jobs EXCEPT ![id].state = "completed"], set, kept)
        /\ lastSync' =
             IF handler[h].response = "ok"
               THEN [lastSync EXCEPT ![ServiceOf(h)] =
                      [valid |-> TRUE, history |-> handler[h].history,
                       rows |-> RowCount(ServiceOf(h))]]
               ELSE lastSync
  /\ handler' = [handler EXCEPT ![h] = Idle]
  /\ UNCHANGED <<chatVars, restVars, dbVars, failed, now, schedVars>>

\* the handler threw (lines 120-123): the worker moves the job to delayed
\* for another attempt, or to failed once the attempts are used up
JobFailed(h) ==
  /\ handler[h].pc = "throw"
  /\ LET id == handler[h].job
         made == jobs[id].attemptsMade + 1
     IN IF ShouldRetry(made)
          THEN /\ jobs' = [jobs EXCEPT
                     ![id].attemptsMade = made,
                     ![id].state = "delayed",
                     ![id].delay = BackoffDelay(made),
                     ![id].backoffs = Append(@, BackoffDelay(made))]
               /\ UNCHANGED failed
          ELSE LET set == Append(failed, id)
                   kept == Retained(set, removeOnFail)
               IN /\ failed' = kept
                  /\ jobs' = DropRemoved(
                       [jobs EXCEPT ![id].attemptsMade = made,
                                    ![id].state = "failed"], set, kept)
  /\ handler' = [handler EXCEPT ![h] = Idle]
  /\ UNCHANGED <<chatVars, restVars, dbVars, completed, now, lastSync, schedVars>>

----------------------------------------------------------------------------
(* The scheduler: ServiceSyncScheduler *)

Calls == 1 .. MaxCalls

\* the rows the select of lines 43-59 returns, by id
RECURSIVE SortedSeq(_)
SortedSeq(set) ==
  IF set = {} THEN <<>>
  ELSE LET m == CHOOSE x \in set : \A y \in set : x <= y
       IN <<m>> \o SortedSeq(set \ {m})

\* the services the scheduler syncs, in the code's words
ServicesToSync == SortedSeq(SyncableServices)

\* Math.random() * 30000 for the values Math.random() takes in the model
Delays == {(k * jitterMs) \div RandomSteps : k \in 0 .. RandomSteps - 1}

NoCall == [pc |-> "idle", outcome |-> "none", queried |-> FALSE,
           calls |-> <<>>, successful |-> 0, failed |-> 0]

Running(c) == run[c].pc # "idle"

\* a scheduler without the overlap guard
NeverRunning == FALSE

\* line 33: the overlap guard
AlreadyRunning == isRunning

\* a cron task that goes on firing after stop()
TimerAlwaysArmed == TRUE

\* lines 25 and 131: node-cron calls the run body while the task exists and
\* is not stopped
TimerArmed == cronTask = "scheduled"

\* lines 32-39: a timer fire or triggerManualSync() calls
\* scheduleServiceSyncJobs, which returns at once when a run is in progress
\* and takes the guard otherwise. The call slots are alike: the first free
\* one stands for any of them.
Fire(c, via) ==
  /\ ~Running(c)
  /\ \A d \in Calls : d < c => Running(d)
  /\ via = "timer" => TimerArmed
  /\ IF AlreadyRunning
       THEN /\ run' = [run EXCEPT ![c] = [NoCall EXCEPT !.outcome = "skipped"]]
            /\ UNCHANGED isRunning
       ELSE /\ run' = [run EXCEPT ![c] = [NoCall EXCEPT !.pc = "query"]]
            /\ isRunning' = TRUE
  /\ UNCHANGED <<chatVars, restVars, dbVars, queueVars, now, syncVars, cronTask>>

\* lines 70-85: one queue add per service, each with its random delay and
\* the job id `daily-sync-${service.id}-${Date.now()}`
AddCalls(services, delays) ==
  [i \in DOMAIN services |->
     [serviceId |-> services[i], delay |-> delays[i],
      jobId |-> JobId("daily-sync", services[i], now), status |-> "pending"]]

\* lines 41-92: the select has answered; with no service the run ends, else
\* the adds are issued
QueryServices(c) ==
  /\ run[c].pc = "query"
  /\ IF Len(ServicesToSync) = 0
       THEN /\ run' = [run EXCEPT ![c].pc = "idle", ![c].queried = TRUE,
                                  ![c].outcome = "nothing"]
            /\ isRunning' = FALSE
       ELSE /\ \E delays \in [DOMAIN ServicesToSync -> Delays] :
                 run' = [run EXCEPT ![c].pc = "enqueue", ![c].queried = TRUE,
                                    ![c].calls = AddCalls(ServicesToSync, delays)]
            /\ UNCHANGED isRunning
  /\ UNCHANGED <<chatVars, restVars, dbVars, queueVars, now, syncVars, cronTask>>

\* a catch clause with no finally clause after it
QueryFailsKeepingGuard(c) ==
  /\ run[c].pc = "query"
  /\ run' = [run EXCEPT ![c].pc = "idle", ![c].outcome = "error"]
  /\ UNCHANGED <<chatVars, restVars, dbVars, queueVars, now, syncVars, cronTask,
                 isRunning>>

\* lines 41-59 and 107-111: the select failed; the error is logged and the
\* guard released
QueryFails(c) ==
  /\ run[c].pc = "query"
  /\ run' = [run EXCEPT ![c].pc = "idle", ![c].outcome = "error"]
  /\ isRunning' = FALSE
  /\ UNCHANGED <<chatVars, restVars, dbVars, queueVars, now, syncVars, cronTask>>

\* line 82: one add is fulfilled, the job is in the queue
AddFulfilled(c, i) ==
  /\ run[c].pc = "enqueue"
  /\ i \in DOMAIN run[c].calls
  /\ run[c].calls[i].status = "pending"
  /\ jobs' = QueueAdd(run[c].calls[i].jobId,
                      NewJob("sync-service", run[c].calls[i].serviceId,
                             run[c].calls[i].delay))
  /\ run' = [run EXCEPT ![c].calls[i].status = "fulfilled"]
  /\ UNCHANGED <<chatVars, restVars, dbVars, completed, failed, now, syncVars, cronTask, isRunning>>

\* line 82: one add is rejected (the queue store cannot be reached)
AddRejected(c, i) ==
  /\ run[c].pc = "enqueue"
  /\ i \in DOMAIN run[c].calls
  /\ run[c].calls[i].status = "pending"
  /\ run' = [run EXCEPT ![c].calls[i].status = "rejected"]
  /\ UNCHANGED <<chatVars, restVars, dbVars, queueVars, now, syncVars, cronTask, isRunning>>

\* a count that takes every add for a success
CountAll(calls, status) ==
  IF status = "fulfilled" THEN Len(calls) ELSE 0

\* lines 95-96: the counts of the settled adds
CountStatus(calls, status) ==
  Cardinality({i \in DOMAIN calls : calls[i].status = status})

\* lines 69 and 94-111: Promise.allSettled resolves once every add has
\* settled; the counts are logged and the guard released
Summarize(c) ==
  /\ run[c].pc = "enqueue"
  /\ \A i \in DOMAIN run[c].calls : run[c].calls[i].status # "pending"
  /\ run' = [run EXCEPT ![c].pc = "idle", ![c].outcome = "completed",
                        ![c].successful = CountStatus(run[c].calls, "fulfilled"),
                        ![c].failed = CountStatus(run[c].calls, "rejected")]
  /\ isRunning' = FALSE
  /\ UNCHANGED <<chatVars, restVars, dbVars, queueVars, now, syncVars, cronTask>>

\* lines 114-126: start() starts the cron task when there is one
Start ==
  /\ cronTask' = IF cronTask # "null" THEN "scheduled" ELSE cronTask
  /\ UNCHANGED <<chatVars, restVars, dbVars, queueVars, now, syncVars, isRunning, run>>

\* lines 128-134: stop() stops the cron task and drops it
Stop ==
  /\ cronTask' = "null"
  /\ UNCHANGED <<chatVars, restVars, dbVars, queueVars, now, syncVars, isRunning, run>>

----------------------------------------------------------------------------
(* The chat queues and their worker: WhatsAppQueueService, WhatsAppWorker *)

NewChatJob(kind) ==
  [kind |-> kind, state |-> "waiting", attemptsStarted |-> 0,
   attemptsMade |-> 0, progress |-> 0]

\* the call record of a job with no attempt running
NoChatCall ==
  [pc |-> "idle", id |-> <<>>, image |-> FALSE, published |-> 0,
   waited |-> FALSE, result |-> "none"]

\* no call of retryFailedMessages is in progress
NoRetryCall == [pc |-> "idle", todo |-> <<>>]

\* messageBroker.ts line 196: groupsResponse is null; no call of
\* getAvailableGroups was made, no request and no groups envelope is on its
\* way. A stored answer is known by the number of requests that were
\* published when it came in.
NoGroups ==
  [groupsResponse |-> [null |-> TRUE, after |-> 0], published |-> 0,
   requests |-> 0, envelopes |-> 0,
   calls |-> [c \in 1 .. MaxGroupCalls |->
                [pc |-> "idle", request |-> 0, result |-> "none", after |-> 0]]]

\* worker/index.ts lines 43-49: the process is started
RestInit ==
  /\ workerProcess = "running"
  /\ expired = {}
  /\ inbound = [pc |-> "idle"]
  /\ command = [pc |-> "idle"]
  /\ lookup = [pc |-> "idle"]
  /\ retryCalls = [r \in 1 .. MaxRetryCalls |-> NoRetryCall]
  /\ isReady = FALSE
  /\ isSubscribed = FALSE
  /\ groups = NoGroups
  /\ clientProcess = "running"
  /\ sending = {}

ChatInit ==
  /\ chatJobs = <<>>
  /\ call = [c \in 1 .. MaxCallers |-> NoChatCall]
  /\ messageQueue = <<>>
  /\ transportUp = TRUE
  /\ inbox = {}
  /\ results = {}
  /\ chatLog = <<>>

\* queueMessage and queueCommand: the job ids of the queues count up
QueueChatJob(kind) ==
  /\ Len(chatJobs) < MaxChatJobs
  /\ Len(chatJobs) < MaxCallers
  /\ chatJobs' = Append(chatJobs, NewChatJob(kind))
  /\ UNCHANGED <<dbVars, queueVars, now, syncVars, schedVars, restVars, call,
                 messageQueue, transportUp, inbox, results, chatLog>>

Concurrency(kind) ==
  IF kind = "message" THEN messageConcurrency ELSE commandConcurrency

ActiveChatJobs(kind) ==
  {j \in DOMAIN chatJobs :
     chatJobs[j].kind = kind /\ chatJobs[j].state = "active"}

\* generateMessageId: `trigger_${Date.now()}_${random}`, a fresh id for every
\* call; the n-th call of caller c is named by the pair
MessageId(c, n) == <<c, n>>

\* messageBroker.ts lines 62-87: the entry is put into the map and the
\* publish is issued
SendTriggerToGroup(c, n, image) ==
  LET id == MessageId(c, n)
  IN /\ messageQueue' =
          (id :> [status |-> "pending", retryCount |-> 0]) @@ messageQueue
     /\ call' = [call EXCEPT ![c] =
          [NoChatCall EXCEPT !.pc = "publish", !.id = id, !.image = image]]

\* POST /trigger/group/message: a request calls sendTriggerToGroup and waits
\* for the answer it returns. The callers are alike: the first one that
\* made no request yet stands for any of them.
RouteSend(c) ==
  /\ c \in DOMAIN call
  /\ call[c] = NoChatCall
  /\ \A d \in DOMAIN call : d < c => call[d] # NoChatCall
  /\ SendTriggerToGroup(c, 1, FALSE)
  /\ UNCHANGED <<dbVars, queueVars, now, syncVars, schedVars, restVars, chatJobs,
                 transportUp, inbox, results, chatLog>>

\* POST /trigger/group/command: a request runs the command and calls
\* sendTriggerToGroup with the reply and the chart, when the reply has one
RouteCommand(c, image) ==
  /\ c \in DOMAIN call
  /\ call[c] = NoChatCall
  /\ \A d \in DOMAIN call : d < c => call[d] # NoChatCall
  /\ SendTriggerToGroup(c, 1, image)
  /\ UNCHANGED <<dbVars, queueVars, now, syncVars, schedVars, restVars, chatJobs,
                 transportUp, inbox, results, chatLog>>

\* a worker takes a waiting job of its queue within its concurrency
TakeChatJob(j, kind) ==
  /\ workerProcess = "running"
  /\ j \in DOMAIN chatJobs
  /\ chatJobs[j].kind = kind
  /\ chatJobs[j].state = "waiting"
  /\ Cardinality(ActiveChatJobs(kind)) < Concurrency(kind)
  /\ chatJobs' = [chatJobs EXCEPT ![j].state = "active",
                                  ![j].attemptsStarted = @ + 1]

\* processMessageJob, lines 37-43: the text goes to the broker
ProcessMessageJob(j) ==
  /\ TakeChatJob(j, "message")
  /\ SendTriggerToGroup(j, chatJobs[j].attemptsStarted + 1, FALSE)
  /\ UNCHANGED <<dbVars, queueVars, now, syncVars, schedVars, restVars, transportUp,
                 inbox, results, chatLog>>

\* processCommandJob, lines 62-70, and sendTriggerCommandToGroup: the
\* command's reply, with an image or without, goes to the broker
ProcessCommandJob(j, image) ==
  /\ TakeChatJob(j, "command")
  /\ SendTriggerToGroup(j, chatJobs[j].attemptsStarted + 1, image)
  /\ UNCHANGED <<dbVars, queueVars, now, syncVars, schedVars, restVars, transportUp,
                 inbox, results, chatLog>>

\* BullMQ's retry test with the attempts of the chat queues
ChatShouldRetry(attemptsMade) == attemptsMade < whatsappAttempts

\* lines 45-49 and 72-76: the broker returned success; the job completes
ChatJobCompleted(j) ==
  /\ workerProcess = "running"
  /\ call[j].pc = "returned"
  /\ call[j].result = "success"
  /\ chatJobs' = [chatJobs EXCEPT ![j].state = "completed",
                                  ![j].progress = 100]
  /\ call' = [call EXCEPT ![j].pc = "idle"]
  /\ UNCHANGED <<dbVars, queueVars, now, syncVars, schedVars, restVars, messageQueue,
                 transportUp, inbox, results, chatLog>>

\* a worker that logs the failure and lets the job complete
ChatJobSwallowsFailure(j) ==
  /\ call[j].pc = "returned"
  /\ call[j].result # "success"
  /\ chatJobs' = [chatJobs EXCEPT ![j].state = "completed"]
  /\ call' = [call EXCEPT ![j].pc = "idle"]
  /\ UNCHANGED <<dbVars, queueVars, now, syncVars, schedVars, restVars, messageQueue,
                 transportUp, inbox, results, chatLog>>

\* lines 50-59 and 77-86: any other answer is thrown; the queue delays the
\* job for another attempt or fails it
ChatJobFailed(j) ==
  /\ workerProcess = "running"
  /\ call[j].pc = "returned"
  /\ call[j].result # "success"
  /\ LET made == chatJobs[j].attemptsMade + 1
     IN chatJobs' = [chatJobs EXCEPT
          ![j].attemptsMade = made,
          ![j].state = IF ChatShouldRetry(made) THEN "delayed" ELSE "failed"]
  /\ call' = [call EXCEPT ![j].pc = "idle"]
  /\ UNCHANGED <<dbVars, queueVars, now, syncVars, schedVars, restVars, messageQueue,
                 transportUp, inbox, results, chatLog>>

\* lines 49 and 76 with worker/index.ts lines 69-72: job.updateProgress(100)
\* is called and not awaited, so when its promise rejects nothing handles
\* the rejection: the process's unhandledRejection handler logs it and calls
\* process.exit(1). The handler had returned normally, and whether BullMQ
\* got the job moved to completed before the exit is open.
UpdateProgressRejected(j, moved) ==
  /\ workerProcess = "running"
  /\ call[j].pc = "returned"
  /\ call[j].result = "success"
  /\ workerProcess' = "exited"
  /\ chatJobs' = [chatJobs EXCEPT
       ![j].state = IF moved THEN "completed" ELSE "active"]
  /\ call' = [call EXCEPT ![j].pc = "idle"]
  /\ UNCHANGED <<dbVars, queueVars, now, syncVars, schedVars, messageQueue,
                 transportUp, inbox, results, chatLog, expired, botVars,
                 ipcVars>>

\* the backoff of a delayed chat job has elapsed
ChatPromoteDelayed(j) ==
  /\ j \in DOMAIN chatJobs
  /\ chatJobs[j].state = "delayed"
  /\ chatJobs' = [chatJobs EXCEPT ![j].state = "waiting"]
  /\ UNCHANGED <<dbVars, queueVars, now, syncVars, schedVars, restVars, call,
                 messageQueue, transportUp, inbox, results, chatLog>>

----------------------------------------------------------------------------
(* The message broker (MessageBroker) and the chat client process *)

\* the publisher's connection goes down and comes back
TransportFails ==
  /\ transportUp
  /\ transportUp' = FALSE
  /\ UNCHANGED <<dbVars, queueVars, now, syncVars, schedVars, restVars, chatJobs, call,
                 messageQueue, inbox, results, chatLog>>

TransportRecovers ==
  /\ ~transportUp
  /\ transportUp' = TRUE
  /\ UNCHANGED <<dbVars, queueVars, now, syncVars, schedVars, restVars, chatJobs, call,
                 messageQueue, inbox, results, chatLog>>

\* lines 77-92: the publish is acknowledged and the call enters
\* waitForResult. Pub/sub hands the command to the chat client when that is
\* subscribed at this moment, and to nobody otherwise.
PublishResolved(j, delivered) ==
  /\ call[j].pc = "publish"
  /\ transportUp
  /\ call' = [call EXCEPT ![j].pc = "wait", ![j].published = @ + 1,
                          ![j].waited = TRUE]
  /\ inbox' = IF delivered
                THEN inbox \cup {[messageId |-> call[j].id,
                                  image |-> call[j].image]}
                ELSE inbox
  /\ UNCHANGED <<dbVars, queueVars, now, syncVars, schedVars, restVars, chatJobs,
                 messageQueue, transportUp, results, chatLog>>

\* a call whose failed publish is taken for a sent one
PublishRejectedThenWaits(j) ==
  /\ call[j].pc = "publish"
  /\ ~transportUp
  /\ call' = [call EXCEPT ![j].pc = "wait", ![j].waited = TRUE]
  /\ UNCHANGED <<dbVars, queueVars, now, syncVars, schedVars, restVars, chatJobs,
                 messageQueue, transportUp, inbox, results, chatLog>>

\* lines 77 and 99-105: the publish is rejected; the catch block returns
\* 'Failed to create trigger message'
PublishRejected(j) ==
  /\ call[j].pc = "publish"
  /\ ~transportUp
  /\ call' = [call EXCEPT ![j].pc = "returned", ![j].result = "error"]
  /\ UNCHANGED <<dbVars, queueVars, now, syncVars, schedVars, restVars, chatJobs,
                 messageQueue, transportUp, inbox, results, chatLog>>

\* messageBroker.ts lines 46 and 157-172: the constructor calls
\* subscribeToResults and does not wait for it; here Redis has acknowledged
\* the subscribe, the listener is put on, and isSubscribed becomes true. A
\* subscribe that is rejected is logged and leaves everything as it is.
SubscribeResolved ==
  /\ ~isSubscribed
  /\ transportUp
  /\ isSubscribed' = TRUE
  /\ UNCHANGED <<dbVars, queueVars, now, syncVars, schedVars, chatVars, procVars,
                 expired, botVars, retryCalls, groups, clientVars>>

\* whatsapp/index.ts lines 81-99: success is what sendMessageToGroup
\* returned; the value sendImageToGroup returns is not looked at
SuccessOf(textSent, imageSent) == textSent

\* whatsapp/index.ts lines 75-110: the chat client handles one send command:
\* the text, then the image when the text went out and there is one, then
\* the result envelope, which reaches the broker when that is subscribed
HandleRedisMessage(cmd, textSent, imageSent, heard) ==
  /\ cmd \in inbox
  /\ imageSent => textSent /\ cmd.image
  /\ inbox' = inbox \ {cmd}
  /\ chatLog' = (cmd.messageId :>
                   [text |-> textSent,
                    image |-> IF ~(textSent /\ cmd.image) THEN "none"
                              ELSE IF imageSent THEN "sent" ELSE "failed",
                    success |-> SuccessOf(textSent, imageSent)]) @@ chatLog
  /\ results' = IF heard
                  THEN results \cup
                         {[messageId |-> cmd.messageId,
                           success |-> SuccessOf(textSent, imageSent)]}
                  ELSE results
  /\ UNCHANGED <<dbVars, queueVars, now, syncVars, schedVars, restVars, chatJobs, call,
                 messageQueue, transportUp>>

\* the id of a request that another process's broker issued
ForeignId == <<0, 0>>

\* the result of another process's request comes over the shared channel
ForeignResult(success) ==
  /\ \A r \in results : r.messageId # ForeignId
  /\ results' = results \cup {[messageId |-> ForeignId, success |-> success]}
  /\ UNCHANGED <<dbVars, queueVars, now, syncVars, schedVars, restVars, chatJobs, call,
                 messageQueue, transportUp, inbox, chatLog>>

\* a result handler that marks every entry still pending
StatusAfterAny(queue, result) ==
  [id \in DOMAIN queue |->
     IF queue[id].status = "pending"
       THEN [queue[id] EXCEPT
               !.status = IF result.success THEN "sent" ELSE "failed"]
       ELSE queue[id]]

\* lines 178-189: the entry with the envelope's id, when there is one, gets
\* the status sent or failed
StatusAfter(queue, result) ==
  IF result.messageId \in DOMAIN queue
    THEN [queue EXCEPT ![result.messageId].status =
            IF result.success THEN "sent" ELSE "failed"]
    ELSE queue

\* lines 163-165 and 178-189: handleMessageResult for one envelope
HandleMessageResult(result) ==
  /\ result \in results
  /\ results' = results \ {result}
  /\ messageQueue' = StatusAfter(messageQueue, result)
  /\ UNCHANGED <<dbVars, queueVars, now, syncVars, schedVars, restVars, chatJobs, call,
                 transportUp, inbox, chatLog>>

\* lines 205-211: what the poll makes of a status that is not pending
ResultOf(status) == IF status = "sent" THEN "success" ELSE "failed"

\* lines 202-212 and 94-98: a poll of waitForResult finds the entry no
\* longer pending and the call returns
CheckResult(j) ==
  /\ call[j].pc = "wait"
  /\ call[j].id \in DOMAIN messageQueue
  /\ messageQueue[call[j].id].status # "pending"
  /\ call' = [call EXCEPT ![j].pc = "returned",
                          ![j].result = ResultOf(messageQueue[call[j].id].status)]
  /\ UNCHANGED <<dbVars, queueVars, now, syncVars, schedVars, restVars, chatJobs,
                 messageQueue, transportUp, inbox, results, chatLog>>

\* a timeout that drops the entry from the map
WaitTimesOutDeleting(j) ==
  /\ call[j].pc = "wait"
  /\ call[j].id \in DOMAIN messageQueue
  /\ messageQueue[call[j].id].status = "pending"
  /\ call' = [call EXCEPT ![j].pc = "returned", ![j].result = "timeout"]
  /\ messageQueue' = [id \in DOMAIN messageQueue \ {call[j].id} |->
                        messageQueue[id]]
  /\ UNCHANGED <<dbVars, queueVars, now, syncVars, schedVars, restVars, chatJobs,
                 transportUp, inbox, results, chatLog>>

\* a timeout that publishes the command once more and waits again
WaitTimesOutRepublishing(j) ==
  /\ call[j].pc = "wait"
  /\ call[j].id \in DOMAIN messageQueue
  /\ messageQueue[call[j].id].status = "pending"
  /\ IF call[j].published < 2
       THEN call' = [call EXCEPT ![j].published = @ + 1]
       ELSE call' = [call EXCEPT ![j].pc = "returned", ![j].result = "timeout"]
  /\ UNCHANGED <<dbVars, queueVars, now, syncVars, schedVars, restVars, chatJobs,
                 messageQueue, transportUp, inbox, results, chatLog>>

\* lines 214-221: a poll finds the entry pending after more than 10 s and the
\* call returns 'Timeout waiting for result'; the entry stays as it is
WaitTimesOut(j) ==
  /\ call[j].pc = "wait"
  /\ call[j].id \in DOMAIN messageQueue
       => messageQueue[call[j].id].status = "pending"
  /\ call' = [call EXCEPT ![j].pc = "returned", ![j].result = "timeout"]
  /\ UNCHANGED <<dbVars, queueVars, now, syncVars, schedVars, restVars, chatJobs,
                 messageQueue, transportUp, inbox, results, chatLog>>

\* messageBroker.ts lines 135-137: the entries retryFailedMessages selects,
\* in the order of the map, which is the order the entries were put in
FailedMessages(queue) ==
  LET selected == {id \in DOMAIN queue :
                     /\ queue[id].status = "failed"
                     /\ queue[id].retryCount < maxRetries}
      RECURSIVE InOrder(_)
      InOrder(ids) ==
        IF ids = {} THEN <<>>
        ELSE LET first == CHOOSE id \in ids : \A other \in ids : id[1] <= other[1]
             IN <<first>> \o InOrder(ids \ {first})
  IN InOrder(selected)

\* lines 140-141: message.retryCount++; message.status = 'pending', on the
\* object the snapshot holds, whatever has become of it since
Retry(queue, id) ==
  IF id \in DOMAIN queue
    THEN [queue EXCEPT ![id].retryCount = @ + 1, ![id].status = "pending"]
    ELSE queue

\* lines 135-143: POST /trigger/retry-failed calls retryFailedMessages; the
\* snapshot is taken, the first entry is changed and its publish is issued.
\* A call that selects nothing returns at once and changes nothing.
RetryFailedMessages(r) ==
  /\ retryCalls[r].pc = "idle"
  /\ FailedMessages(messageQueue) # <<>>
  /\ retryCalls' = [retryCalls EXCEPT
                      ![r] = [pc |-> "publish", todo |-> FailedMessages(messageQueue)]]
  /\ messageQueue' = Retry(messageQueue, Head(FailedMessages(messageQueue)))
  /\ UNCHANGED <<dbVars, queueVars, now, syncVars, schedVars, procVars, expired,
                 botVars, isSubscribed, groups, clientVars, chatJobs, call,
                 transportUp, inbox, results, chatLog>>

\* lines 139-153: the publish of one entry is acknowledged, the command
\* (without an image) goes to the chat client, and the loop goes on with the
\* next entry of its snapshot or ends
RetryPublishResolved(r) ==
  /\ retryCalls[r].pc = "publish"
  /\ transportUp
  /\ inbox' = inbox \cup {[messageId |-> Head(retryCalls[r].todo), image |-> FALSE]}
  /\ IF Tail(retryCalls[r].todo) = <<>>
       THEN /\ retryCalls' = [retryCalls EXCEPT ![r] = NoRetryCall]
            /\ UNCHANGED messageQueue
       ELSE /\ retryCalls' = [retryCalls EXCEPT ![r].todo = Tail(@)]
            /\ messageQueue' = Retry(messageQueue, retryCalls[r].todo[2])
  /\ UNCHANGED <<dbVars, queueVars, now, syncVars, schedVars, procVars, expired,
                 botVars, isSubscribed, groups, clientVars, chatJobs, call,
                 transportUp, results, chatLog>>

\* lines 143-153: the publish is rejected and the call ends with the
\* rejection; the entry it had changed stays pending
RetryPublishRejected(r) ==
  /\ retryCalls[r].pc = "publish"
  /\ ~transportUp
  /\ retryCalls' = [retryCalls EXCEPT ![r] = NoRetryCall]
  /\ UNCHANGED <<dbVars, queueVars, now, syncVars, schedVars, procVars, expired,
                 botVars, isSubscribed, groups, clientVars, chatVars>>

----------------------------------------------------------------------------
(* The list of groups: MessageBroker.getAvailableGroups *)

\* messageBroker.ts lines 236-243, the first checkResponse(), which runs at
\* once when the publish is acknowledged: an answer that is stored is taken
\* and the slot is emptied; otherwise the call polls
FirstCheck(response, c, request) ==
  IF response.null
    THEN [response |-> response,
          call |-> [pc |-> "wait", request |-> request, result |-> "none",
                    after |-> 0]]
    ELSE [response |-> [null |-> TRUE, after |-> 0],
          call |-> [pc |-> "returned", request |-> request, result |-> "list",
                    after |-> response.after]]

\* GET /groups: lines 108-116: getAvailableGroups issues its publish
GetAvailableGroups(c) ==
  /\ groups.calls[c].pc = "idle"
  /\ groups' = [groups EXCEPT !.calls[c].pc = "publish"]
  /\ UNCHANGED <<dbVars, queueVars, now, syncVars, schedVars, chatVars, procVars,
                 expired, botVars, retryCalls, isSubscribed, clientVars>>

\* lines 111-120 and 236-243: the publish is acknowledged, the request is on
\* its way to the chat client, and waitForGroupsResponse looks at the slot
GroupsPublishResolved(c) ==
  /\ groups.calls[c].pc = "publish"
  /\ transportUp
  /\ LET first == FirstCheck(groups.groupsResponse, c, groups.published + 1)
     IN groups' = [groups EXCEPT !.published = @ + 1, !.requests = @ + 1,
                                 !.groupsResponse = first.response,
                                 !.calls[c] = first.call]
  /\ UNCHANGED <<dbVars, queueVars, now, syncVars, schedVars, chatVars, procVars,
                 expired, botVars, retryCalls, isSubscribed, clientVars>>

\* lines 121-124: the publish is rejected; the catch block returns []
GroupsPublishRejected(c) ==
  /\ groups.calls[c].pc = "publish"
  /\ ~transportUp
  /\ groups' = [groups EXCEPT !.calls[c].pc = "returned",
                              !.calls[c].result = "empty"]
  /\ UNCHANGED <<dbVars, queueVars, now, syncVars, schedVars, chatVars, procVars,
                 expired, botVars, retryCalls, isSubscribed, clientVars>>

\* whatsapp/index.ts lines 111-117: the chat client answers a get_groups
\* request with the list of its groups
ClientAnswersGroups ==
  /\ groups.requests > 0
  /\ groups' = [groups EXCEPT !.requests = @ - 1, !.envelopes = @ + 1]
  /\ UNCHANGED <<dbVars, queueVars, now, syncVars, schedVars, chatVars, procVars,
                 expired, botVars, retryCalls, isSubscribed, clientVars>>

\* messageBroker.ts lines 166-167 and 191-194: handleGroupsResponse stores
\* the list of a groups envelope in the one slot
HandleGroupsResponse ==
  /\ groups.envelopes > 0
  /\ groups' = [groups EXCEPT !.envelopes = @ - 1,
                              !.groupsResponse =
                                 [null |-> FALSE, after |-> groups.published]]
  /\ UNCHANGED <<dbVars, queueVars, now, syncVars, schedVars, chatVars, procVars,
                 expired, botVars, retryCalls, isSubscribed, clientVars>>

\* lines 236-241: a later poll finds an answer, takes it and empties the slot
CheckResponse(c) ==
  /\ groups.calls[c].pc = "wait"
  /\ ~groups.groupsResponse.null
  /\ groups' = [groups EXCEPT !.groupsResponse = [null |-> TRUE, after |-> 0],
                              !.calls[c].pc = "returned",
                              !.calls[c].result = "list",
                              !.calls[c].after = groups.groupsResponse.after]
  /\ UNCHANGED <<dbVars, queueVars, now, syncVars, schedVars, chatVars, procVars,
                 expired, botVars, retryCalls, isSubscribed, clientVars>>

\* lines 244-247 and 120: a poll finds the slot empty after more than 5 s;
\* null comes back and getAvailableGroups returns []
GroupsTimeOut(c) ==
  /\ groups.calls[c].pc = "wait"
  /\ groups.groupsResponse.null
  /\ groups' = [groups EXCEPT !.calls[c].pc = "returned",
                              !.calls[c].result = "empty"]
  /\ UNCHANGED <<dbVars, queueVars, now, syncVars, schedVars, chatVars, procVars,
                 expired, botVars, retryCalls, isSubscribed, clientVars>>

----------------------------------------------------------------------------
(* The chat client's process: whatsapp/index.ts and the sends of bot.ts *)

\* whatsapp/index.ts lines 134-137: the 'ready' event
ClientReady ==
  /\ clientProcess = "running"
  /\ ~isReady
  /\ isReady' = TRUE
  /\ UNCHANGED <<dbVars, queueVars, now, syncVars, schedVars, chatVars, procVars,
                 expired, botVars, retryCalls, isSubscribed, groups,
                 clientProcess, sending>>

\* lines 149-157: the 'disconnected' event
ClientDisconnected ==
  /\ clientProcess = "running"
  /\ isReady
  /\ isReady' = FALSE
  /\ UNCHANGED <<dbVars, queueVars, now, syncVars, schedVars, chatVars, procVars,
                 expired, botVars, retryCalls, isSubscribed, groups,
                 clientProcess, sending>>

\* lines 168-172: SIGINT or SIGTERM: gracefulShutdown begins with
\* bot.setReady(false)
GracefulShutdown ==
  /\ clientProcess = "running"
  /\ clientProcess' = "shuttingDown"
  /\ isReady' = FALSE
  /\ UNCHANGED <<dbVars, queueVars, now, syncVars, schedVars, chatVars, procVars,
                 expired, botVars, retryCalls, isSubscribed, groups, sending>>

\* lines 174-193: the client and the Redis connections are closed and the
\* process exits, whatever calls are in progress
ClientExits ==
  /\ clientProcess = "shuttingDown"
  /\ clientProcess' = "exited"
  /\ UNCHANGED <<dbVars, queueVars, now, syncVars, schedVars, chatVars, procVars,
                 expired, botVars, retryCalls, isSubscribed, groups, isReady,
                 sending>>

\* what the chat client has done for a message id so far
NoSends ==
  [commands |-> 0, envelopes |-> 0, text |-> "none", image |-> "none",
   success |-> FALSE]

SendsOf(id) == IF id \in DOMAIN chatLog THEN chatLog[id] ELSE NoSends

\* a sendMessageToGroup that does not look at isReady
NoReadyCheck(ready) == "text"

\* bot.ts lines 162-166: sendMessageToGroup returns false at once when the
\* bot is not ready, and the handler goes on to publish the result
ReadyCheck(ready) == IF ready THEN "text" ELSE "publish"

\* index.ts lines 75-86 and bot.ts lines 162-166: a send command comes in;
\* sendMessageToGroup looks at isReady at once and returns false when the
\* bot is not ready
ClientReceive(cmd) ==
  /\ clientProcess # "exited"
  /\ cmd \in inbox
  /\ inbox' = inbox \ {cmd}
  /\ sending' = sending \cup
       {[messageId |-> cmd.messageId, image |-> cmd.image, ready |-> isReady,
         pc |-> ReadyCheck(isReady), success |-> FALSE]}
  /\ chatLog' = (cmd.messageId :>
                   [SendsOf(cmd.messageId) EXCEPT !.commands = @ + 1]) @@ chatLog
  /\ UNCHANGED <<dbVars, queueVars, now, syncVars, schedVars, procVars, expired,
                 botVars, retryCalls, isSubscribed, groups, isReady,
                 clientProcess, chatJobs, call, messageQueue, transportUp,
                 results>>

\* the ways the send of the text ends: client.getChats() rejects, no group
\* has the name, chat.sendMessage rejects, the message goes out
TextOutcomes == {"getChatsThrows", "noGroup", "sendFails", "sent"}

\* bot.ts lines 122-128 and 168-185: what sendMessageToGroup returns once
\* the bot was ready: sendMessage catches and logs the rejection of
\* chat.sendMessage, and sendMessageToGroup returns true after it
SendMessageToGroup(outcome) == outcome \in {"sendFails", "sent"}

\* index.ts lines 84-88: the text is sent; the image is next when the send
\* returned true and the command has one
ClientSendText(s, outcome) ==
  /\ clientProcess # "exited"
  /\ s \in sending
  /\ s.pc = "text"
  /\ sending' = (sending \ {s}) \cup
       {[s EXCEPT !.success = SendMessageToGroup(outcome),
                  !.pc = IF SendMessageToGroup(outcome) /\ s.image
                           THEN "image" ELSE "publish"]}
  /\ chatLog' = [chatLog EXCEPT
                   ![s.messageId].text = IF outcome = "sent" THEN "sent"
                                         ELSE IF @ = "sent" THEN @ ELSE "failed"]
  /\ UNCHANGED <<dbVars, queueVars, now, syncVars, schedVars, procVars, expired,
                 botVars, retryCalls, isSubscribed, groups, isReady,
                 clientProcess, chatJobs, call, messageQueue, transportUp,
                 inbox, results>>

\* the ways the send of the image ends: Buffer.from throws on the field,
\* sendImageToGroup returns false (not ready, no group, a rejection), the
\* image goes out
ImageOutcomes == {"throws", "notSent", "sent"}

\* a handler without the inner try/catch: the throw ends the call in the
\* outer catch, which logs it
ThrowEndsCall(success, threw) ==
  [pc |-> IF threw THEN "ended" ELSE "publish", success |-> success]

\* index.ts lines 84-99: the inner try/catch: after a throw success is
\* false, and the call goes on to publish the result in both cases
InnerTryCatch(success, threw) ==
  [pc |-> "publish", success |-> success /\ ~threw]

\* index.ts lines 88-95 and bot.ts lines 188-216: the image is sent; the
\* value sendImageToGroup returns is not looked at
ClientSendImage(s, outcome) ==
  /\ clientProcess # "exited"
  /\ s \in sending
  /\ s.pc = "image"
  /\ outcome = "sent" => isReady
  /\ LET next == InnerTryCatch(s.success, outcome = "throws")
     IN sending' = (sending \ {s}) \cup
          (IF next.pc = "ended" THEN {}
           ELSE {[s EXCEPT !.pc = next.pc, !.success = next.success]})
  /\ chatLog' = [chatLog EXCEPT
                   ![s.messageId].image = IF outcome = "sent" THEN "sent"
                                          ELSE "failed"]
  /\ UNCHANGED <<dbVars, queueVars, now, syncVars, schedVars, procVars, expired,
                 botVars, retryCalls, isSubscribed, groups, isReady,
                 clientProcess, chatJobs, call, messageQueue, transportUp,
                 inbox, results>>

\* index.ts lines 101-109: the result envelope is published; it reaches the
\* broker when that is subscribed to the channel
ClientPublish(s, heard) ==
  /\ clientProcess # "exited"
  /\ s \in sending
  /\ s.pc = "publish"
  /\ sending' = sending \ {s}
  /\ chatLog' = [chatLog EXCEPT ![s.messageId].envelopes = @ + 1,
                                ![s.messageId].success = s.success]
  /\ results' = IF heard
                  THEN results \cup
                         {[messageId |-> s.messageId, success |-> s.success]}
                  ELSE results
  /\ UNCHANGED <<dbVars, queueVars, now, syncVars, schedVars, procVars, expired,
                 botVars, retryCalls, isSubscribed, groups, isReady,
                 clientProcess, chatJobs, call, messageQueue, transportUp,
                 inbox>>

----------------------------------------------------------------------------
(* Strings: a string is the sequence of its characters *)

\* String.prototype.toLowerCase
ToLowerCase(str) ==
  LET upper == <<"A", "B", "C", "D", "E", "F", "G", "H", "I", "J", "K", "L", "M",
                 "N", "O", "P", "Q", "R", "S", "T", "U", "V", "W", "X", "Y", "Z">>
      lower == <<"a", "b", "c", "d", "e", "f", "g", "h", "i", "j", "k", "l", "m",
                 "n", "o", "p", "q", "r", "s", "t", "u", "v", "w", "x", "y", "z">>
      ToLowerChar(c) ==
        IF \E i \in 1 .. 26 : upper[i] = c
          THEN lower[CHOOSE i \in 1 .. 26 : upper[i] = c]
          ELSE c
  IN  IF str = <<>> THEN <<>> ELSE [i \in 1 .. Len(str) |-> ToLowerChar(str[i])]

\* a trim that trims nothing
TrimNothing(str) == str

\* String.prototype.trim, the white space being blanks
Trim(str) ==
  LET RECURSIVE TrimStart(_)
      TrimStart(t) ==
        IF t # <<>> /\ Head(t) = " " THEN TrimStart(Tail(t)) ELSE t
      RECURSIVE TrimEnd(_)
      TrimEnd(t) ==
        IF t # <<>> /\ t[Len(t)] = " "
          THEN TrimEnd(SubSeq(t, 1, Len(t) - 1))
          ELSE t
  IN  TrimEnd(TrimStart(str))

\* String.prototype.startsWith
StartsWith(str, searchString) ==
  /\ Len(str) >= Len(searchString)
  /\ SubSeq(str, 1, Len(searchString)) = searchString

\* String.prototype.indexOf, counting from 1; 0 when there is no occurrence
IndexOf(str, pattern) ==
  LET at == {i \in 1 .. Len(str) - Len(pattern) + 1 :
               SubSeq(str, i, i + Len(pattern) - 1) = pattern}
  IN  IF at = {} THEN 0 ELSE CHOOSE i \in at : \A k \in at : i <= k

\* String.prototype.replace with a string pattern: the first occurrence only
Replace(str, pattern, replacement) ==
  LET i == IndexOf(str, pattern)
  IN  IF i = 0
        THEN str
        ELSE SubSeq(str, 1, i - 1) \o replacement
               \o SubSeq(str, i + Len(pattern), Len(str))

----------------------------------------------------------------------------
(* The command handler: server/whatsapp/commands (CommandHandler) *)

\* the command prefix
Prefix == <<"!", "s", "y", "s", "t", "r", "a", "c", "k">>

\* what the services behind the handlers do when they are called
Environments == {"ok", "notFound", "dbFails", "chartFails"}

\* a call returns the reply of one of the handlers, or throws
Return(route, reply, identifier, imageBuffer) ==
  [kind |-> "return", route |-> route, reply |-> reply,
   identifier |-> identifier, imageBuffer |-> imageBuffer]

Throw == [kind |-> "throw"]

\* a try block without its catch clause
TryWithoutCatch(result, caught) == result

\* try { ... } catch (error) { return ... }
TryCatch(result, caught) == IF result.kind = "throw" THEN caught ELSE result

\* healthChecker.checkSystemHealth, healthChecker.getSystemStatus and
\* serviceManager.getAllServices
CallService(route, env) ==
  IF env = "dbFails" THEN Throw ELSE Return(route, route, <<>>, FALSE)

\* serviceManager.getServiceDetails and getServiceLogs: a text, which says
\* 'not found' when no row matches; a failed query is thrown again
CallServiceManager(route, identifier, env) ==
  CASE env = "dbFails"  -> Throw
    [] env = "notFound" -> Return(route, "notFound", identifier, FALSE)
    [] OTHER            -> Return(route, route, identifier, FALSE)

handleHealthCheck(env) ==
  TryCatch(CallService("health", env),
           Return("health", "failed", <<>>, FALSE))

handleStatusCheck(env) ==
  TryCatch(CallService("status", env),
           Return("status", "failed", <<>>, FALSE))

handleServicesList(env) ==
  TryCatch(CallService("services", env),
           Return("services", "failed", <<>>, FALSE))

handleServiceDetails(identifier, env) ==
  TryCatch(CallServiceManager("details", identifier, env),
           Return("details", "failed", identifier, FALSE))

handleServiceLogs(identifier, env) ==
  TryCatch(CallServiceManager("logs", identifier, env),
           Return("logs", "failed", identifier, FALSE))

\* getServiceByIdOrName returns null when no row matches and when the query
\* fails; generateServiceStatusChart can throw
handleServiceStatus(identifier, env) ==
  TryCatch(
    CASE env \in {"notFound", "dbFails"}
           -> Return("serviceStatus", "notFound", identifier, FALSE)
      [] env = "chartFails" -> Throw
      [] OTHER -> Return("serviceStatus", "serviceStatus", identifier, TRUE),
    Return("serviceStatus", "failed", identifier, FALSE))

handleCommand(text, env) ==
  LET cleanCommand  == ToLowerCase(Trim(text))
      actualCommand == Trim(Replace(cleanCommand, Prefix, <<>>))
      Identifier(keyword) == Trim(Replace(actualCommand, keyword, <<>>))
  IN  TryCatch(
        CASE ~StartsWith(cleanCommand, Prefix) -> Return("guidance", "guidance", <<>>, FALSE)
          [] OTHER ->
        CASE actualCommand \in {<<"c", "o", "m", "m", "a", "n", "d", "s">>,
                                <<"l", "i", "s", "t">>}
               -> Return("commands", "commands", <<>>, FALSE)
          [] OTHER ->
        CASE actualCommand \in {<<"h", "e", "l", "p">>, <<>>}
               -> Return("help", "help", <<>>, FALSE)
          [] OTHER ->
        CASE actualCommand = <<"h", "e", "a", "l", "t", "h">>
               -> handleHealthCheck(env)
          [] OTHER ->
        CASE actualCommand = <<"s", "t", "a", "t", "u", "s">>
               -> handleStatusCheck(env)
          [] OTHER ->
        CASE actualCommand = <<"s", "e", "r", "v", "i", "c", "e", "s">>
               -> handleServicesList(env)
          [] OTHER ->
        CASE StartsWith(actualCommand, <<"s", "e", "r", "v", "i", "c", "e", " ">>)
               -> handleServiceDetails(
                    Identifier(<<"s", "e", "r", "v", "i", "c", "e", " ">>), env)
          [] OTHER ->
        CASE StartsWith(actualCommand, <<"l", "o", "g", "s", " ">>)
               -> handleServiceLogs(Identifier(<<"l", "o", "g", "s", " ">>), env)
          [] OTHER ->
        CASE StartsWith(actualCommand,
                        <<"s", "e", "r", "v", "i", "c", "e", "-", "s", "t", "a", "t", "u", "s", " ">>)
               -> handleServiceStatus(
                    Identifier(<<"s", "e", "r", "v", "i", "c", "e", "-", "s", "t", "a", "t", "u", "s", " ">>),
                    env)
          [] OTHER -> Return("unknown", "unknown", actualCommand, FALSE),
        Return("error", "error", <<>>, FALSE))

\* the texts handleCommand is called with: the prefix as typed, the
\* keyword, its argument if any, and the blanks around them
MaxPad == 1

Keywords ==
  {<<"c", "o", "m", "m", "a", "n", "d", "s">>,
   <<"l", "i", "s", "t">>,
   <<"h", "e", "l", "p">>,
   <<"H", "e", "l", "p">>,
   <<"h", "e", "a", "l", "t", "h">>,
   <<"s", "t", "a", "t", "u", "s">>,
   <<"s", "e", "r", "v", "i", "c", "e", "s">>,
   <<"s", "e", "r", "v", "i", "c", "e">>,
   <<"l", "o", "g", "s">>,
   <<"s", "e", "r", "v", "i", "c", "e", "-", "s", "t", "a", "t", "u", "s">>,
   <<"r", "e", "s", "t", "a", "r", "t">>,
   <<>>}

Commands ==
  [pad : 0 .. MaxPad,
   prefix : {<<"!", "s", "y", "s", "t", "r", "a", "c", "k">>,
             <<"!", "S", "Y", "S", "T", "R", "A", "C", "K">>,
             <<>>},
   gap : 0 .. 1,
   keyword : Keywords,
   argument : {<<>>, <<"5">>, <<"w", "e", "b">>, <<"A", "p", "i">>}]

TextOf(c) ==
  LET Spaces(n) == [i \in 1 .. n |-> " "]
  IN  Spaces(c.pad) \o c.prefix \o Spaces(c.gap) \o c.keyword
        \o (IF c.argument = <<>> THEN <<>> ELSE <<" ">> \o c.argument)
        \o Spaces(c.pad)

\* a caller calls handleCommand
CallHandleCommand(c, env) ==
  /\ command.pc \in {"idle", "returned"}
  /\ command' = [pc |-> "called", parts |-> c, text |-> TextOf(c),
                 env |-> env]
  /\ UNCHANGED <<dbVars, queueVars, now, syncVars, schedVars, chatVars,
                 procVars, expired, ipcVars, inbound, lookup>>

\* part_005 lines 205-271: the call returns or throws
HandleCommandEnds ==
  /\ command.pc = "called"
  /\ command' = [pc |-> "returned", parts |-> command.parts,
                 text |-> command.text, env |-> command.env,
                 result |-> handleCommand(command.text, command.env)]
  /\ UNCHANGED <<dbVars, queueVars, now, syncVars, schedVars, chatVars,
                 procVars, expired, ipcVars, inbound, lookup>>

----------------------------------------------------------------------------
(* The chat client's bot: server/whatsapp/bot.ts *)

\* the groups the bot answers in
AllowedGroups == {"Digital Architect", "Test bot", "Harian 8.6"}

\* message.body
Bodies ==
  {<<"!", "s", "y", "s", "t", "r", "a", "c", "k", " ", "h", "e", "l", "p">>,
   <<" ", "!", "S", "y", "s", "T", "r", "a", "c", "k", " ", "h", "e", "a", "l", "t", "h", " ">>,
   <<"!", "s", "y", "s", "t", "r", "a", "c", "k">>,
   <<"!", "s", "y", "s", "t", "r", "a", "c", "k", " ", "h", "i">>,
   <<"!", "s", "y", "s", "t", "r", "a", "c", "k", " ", "s", "e", "r", "v", "i", "c", "e", "-", "s", "t", "a", "t", "u", "s", " ", "1">>,
   <<"h", "e", "l", "l", "o">>}

WelcomeBodies ==
  {<<"!", "s", "y", "s", "t", "r", "a", "c", "k">>,
   <<"!", "s", "y", "s", "t", "r", "a", "c", "k", " ", "h", "i">>,
   <<"!", "s", "y", "s", "t", "r", "a", "c", "k", " ", "h", "e", "l", "l", "o">>}

\* the bot's settings and an inbound message: the admin phone not set or
\* set, a text or an image, from a chat with the name of an allowed group
\* or with another name, sent by the admin or by someone else
Messages ==
  [isReady : BOOLEAN, groupsOnly : BOOLEAN, adminPhone : {"", "6281"},
   type : {"chat", "image"}, body : Bodies, isGroup : BOOLEAN,
   name : AllowedGroups \cup {"Family"}, number : {"6281", "6282"},
   env : {"ok", "chartFails"}]

Sent(to, kind) == [to |-> to, kind |-> kind]

\* what handleMessage sends, and the result of the command it ran, if any
Handled(sent, response) == [sent |-> sent, response |-> response]

NoResponse == [kind |-> "none"]

\* the admin check as the first check after the allow-list
AdminCheckFirst(m) ==
  IF m.adminPhone # "" /\ m.number # m.adminPhone
    THEN "refuse"
    ELSE IF ~m.groupsOnly THEN "disabled" ELSE "pass"

\* bot.ts lines 68-82: the maintenance switch, then the admin check
AccessCheck(m) ==
  IF ~m.groupsOnly
    THEN "disabled"
    ELSE IF m.adminPhone # "" /\ m.number # m.adminPhone
           THEN "refuse"
           ELSE "pass"

handleMessage(m) ==
  LET messageBody == ToLowerCase(Trim(m.body))
      groupName   == IF m.isGroup THEN m.name ELSE "Private Chat"
      response    == handleCommand(messageBody, m.env)
  IN  CASE ~m.isReady -> Handled(<<>>, NoResponse)
        [] OTHER ->
      CASE m.type # "chat" -> Handled(<<>>, NoResponse)
        [] OTHER ->
      CASE ~StartsWith(messageBody, Prefix) -> Handled(<<>>, NoResponse)
        [] OTHER ->
      CASE groupName \notin AllowedGroups -> Handled(<<>>, NoResponse)
        [] OTHER ->
      CASE ~m.isGroup -> Handled(<<>>, NoResponse)
        [] OTHER ->
      CASE AccessCheck(m) = "disabled"
             -> Handled(<<Sent("group", "disabled")>>, NoResponse)
        [] OTHER ->
      CASE AccessCheck(m) = "refuse"
             -> Handled(<<Sent("private", "refusal")>>, NoResponse)
        [] OTHER ->
      CASE messageBody \in WelcomeBodies
             -> Handled(<<Sent("group", "welcome")>>, NoResponse)
        [] OTHER ->
      CASE response.kind = "throw"
             -> Handled(<<Sent("group", "error")>>, response)
        [] OTHER ->
             Handled(<<Sent("group", response.reply)>>
                       \o (IF response.imageBuffer
                             THEN <<Sent("group", "image")>>
                             ELSE <<>>),
                     response)

\* the client's 'message' event
ReceiveMessage(m) ==
  /\ inbound.pc \in {"idle", "handled"}
  /\ inbound' = [pc |-> "received", message |-> m]
  /\ UNCHANGED <<dbVars, queueVars, now, syncVars, schedVars, chatVars,
                 procVars, expired, ipcVars, command, lookup>>

\* bot.ts lines 31-120
HandleMessage ==
  /\ inbound.pc = "received"
  /\ inbound' = [pc |-> "handled", message |-> inbound.message,
                 out |-> handleMessage(inbound.message)]
  /\ UNCHANGED <<dbVars, queueVars, now, syncVars, schedVars, chatVars,
                 procVars, expired, ipcVars, command, lookup>>

----------------------------------------------------------------------------
(* The chat commands' lookup of a service by its identifier *)

\* the identifiers are the texts of one to MaxIdentifierLen characters over
\* three digits and two letters, none of which has a meaning of its own in a
\* numeric literal
MaxIdentifierLen == 2

Identifiers ==
  UNION {[1 .. n -> {"1", "2", "3", "a", "b"}] : n \in 1 .. MaxIdentifierLen}

\* the column 'name' of the services rows
ServiceNames == <<<<"a", "b">>, <<"b", "2">>>>

\* the decimal digits and their values
DecimalDigits ==
  LET digits == <<"0", "1", "2", "3", "4", "5", "6", "7", "8", "9">>
  IN  [c \in Range(digits) |-> (CHOOSE i \in 1 .. 10 : digits[i] = c) - 1]

RECURSIVE DecimalValue(_)
DecimalValue(str) ==
  IF str = <<>>
    THEN 0
    ELSE 10 * DecimalValue(SubSeq(str, 1, Len(str) - 1))
           + DecimalDigits[str[Len(str)]]

\* NaN, which no number equals; the ids are positive
NaN == 0 - 1

\* Number(identifier): the whole text has to be a numeric literal
Number(str) ==
  IF \A i \in 1 .. Len(str) : str[i] \in DOMAIN DecimalDigits
    THEN DecimalValue(str)
    ELSE NaN

\* parseInt(identifier): the digits the text starts with
ParseInt(str) ==
  LET RECURSIVE LeadingDigits(_)
      LeadingDigits(t) ==
        IF t # <<>> /\ Head(t) \in DOMAIN DecimalDigits
          THEN <<Head(t)>> \o LeadingDigits(Tail(t))
          ELSE <<>>
  IN  IF LeadingDigits(str) = <<>>
        THEN NaN
        ELSE DecimalValue(LeadingDigits(str))

\* LIKE '%pattern%'
Like(str, pattern) == IndexOf(str, pattern) # 0

\* services[0]: the first row of the result, in the order of the primary
\* key; 0 when the result is empty
FirstRow(rows) ==
  IF rows = {} THEN 0 ELSE CHOOSE t \in rows : \A u \in rows : t <= u

\* serviceManager.ts lines 54-67: the rows that are not soft-deleted, by id
\* when the identifier is a number, by a part of the name when it is not
getServiceDetails(identifier) ==
  IF Number(identifier) # NaN
    THEN FirstRow({t \in Targets : /\ t = Number(identifier)
                                   /\ ~servicesTable[t].deletedAt})
    ELSE FirstRow({t \in Targets : /\ Like(ServiceNames[t], identifier)
                                   /\ ~servicesTable[t].deletedAt})

\* serviceManager.ts lines 97-110: the same query
getServiceLogs(identifier) ==
  IF Number(identifier) # NaN
    THEN FirstRow({t \in Targets : /\ t = Number(identifier)
                                   /\ ~servicesTable[t].deletedAt})
    ELSE FirstRow({t \in Targets : /\ Like(ServiceNames[t], identifier)
                                   /\ ~servicesTable[t].deletedAt})

\* whatsapp/index.ts lines 259-283: every row, by id when the identifier
\* starts with a number, by the whole name when it does not
getServiceByIdOrName(identifier) ==
  IF ParseInt(identifier) # NaN
    THEN FirstRow({t \in Targets : t = ParseInt(identifier)})
    ELSE FirstRow({t \in Targets : ServiceNames[t] = identifier})

\* the commands 'service x', 'logs x' and 'service-status x' with the same
\* identifier x, the store not changing between them
ServiceCommands(identifier) ==
  /\ lookup' = [pc |-> "resolved", identifier |-> identifier,
                details |-> getServiceDetails(identifier),
                logs |-> getServiceLogs(identifier),
                serviceStatus |-> getServiceByIdOrName(identifier)]
  /\ UNCHANGED <<dbVars, queueVars, now, syncVars, schedVars, chatVars,
                 procVars, expired, ipcVars, inbound, command>>

----
(* The specifications *)

Init ==
  /\ servicesTable =
       [t \in Targets |->
          [type |-> SHARED_HOSTING, status |-> 1, deletedAt |-> FALSE,
           resStatusApiUrl |-> "https://a", resStatusApiKey |-> "key-a"]]
  /\ serviceLogsTable = EmptyBag
  /\ jobs = <<>>
  /\ completed = <<>>
  /\ failed = <<>>
  /\ now = 0
  /\ handler = [h \in Handlers |-> Idle]
  /\ lastSync = [t \in Targets |-> NoSync]
  /\ cronTask = "scheduled"
  /\ isRunning = FALSE
  /\ run = [c \in Calls |-> NoCall]
  /\ ChatInit
  /\ RestInit

\* the worker's steps that do not depend on the remote API's answer
Worker ==
  \/ \E h \in Handlers, id \in DOMAIN jobs : ProcessJob(h, id)
  \/ \E h \in Handlers : LookupExisting(h)
  \/ \E h \in Handlers : InsertRecords(h)
  \/ \E h \in Handlers : UpdateProgress(h)
  \/ \E h \in Handlers : JobCompleted(h)

\* Spec: manual sync requests arriving over time for every target, their jobs
\* handled concurrently, the remote API up
Next ==
  \/ Tick
  \/ \E t \in Targets : ManualSyncService(t)
  \/ \E h \in Handlers : FetchHistory(h, HealthyResponses)
  \/ Worker

Spec == Init /\ [][Next]_vars

\* SpecRetry: one manual sync request per target, the remote API answering
\* anything or not at all, the queue's retry policy at work
NextRetry ==
  \/ \E t \in Targets : ManualSyncService(t)
  \/ \E id \in DOMAIN jobs : PromoteDelayed(id)
  \/ \E h \in Handlers : FetchHistory(h, Responses)
  \/ \E h \in Handlers : FetchRejected(h)
  \/ \E h \in Handlers : JobFailed(h)
  \/ Worker

SpecRetry == Init /\ [][NextRetry]_vars

\* SpecCrud: one manual sync request per target while the service routes
\* change and delete the services under the queued jobs
NextCrud ==
  \/ \E t \in Targets : ManualSyncService(t)
  \/ \E t \in Targets : UpdateService(t)
  \/ \E t \in Targets : DeleteService(t)
  \/ \E h \in Handlers : FetchHistory(h, Responses)
  \/ \E h \in Handlers : JobFailed(h)
  \/ \E id \in DOMAIN jobs : PromoteDelayed(id)
  \/ Worker

SpecCrud == Init /\ [][NextCrud]_vars

\* SpecEndpoint: manual sync requests while the service route changes the
\* endpoints and keys of the services under the queued jobs, the remote API
\* up at every endpoint
NextEndpoint ==
  \/ \E t \in Targets : ManualSyncService(t)
  \/ \E t \in Targets : UpdateEndpoint(t)
  \/ \E h \in Handlers : FetchHistory(h, HealthyResponses)
  \/ Worker

SpecEndpoint == Init /\ [][NextEndpoint]_vars

\* SpecFailed: manual sync requests one after the other over a longer time,
\* the remote API unreachable, so that every job uses up its attempts
NextFailed ==
  \/ TickTo(MaxFailNow)
  \/ \E t \in Targets : ManualSyncOneByOne(t)
  \/ \E id \in DOMAIN jobs : PromoteDelayed(id)
  \/ \E h \in Handlers, id \in DOMAIN jobs : ProcessJob(h, id)
  \/ \E h \in Handlers : FetchRejected(h)
  \/ \E h \in Handlers : JobFailed(h)

SpecFailed == Init /\ [][NextFailed]_vars

\* SpecChat: message and command jobs relayed by the broker to the chat
\* client, with every loss the pub/sub layer and the chat network allow
NextChat ==
  \/ \E kind \in {"message", "command"} : QueueChatJob(kind)
  \/ \E j \in DOMAIN chatJobs : ProcessMessageJob(j)
  \/ \E j \in DOMAIN chatJobs, image \in BOOLEAN : ProcessCommandJob(j, image)
  \/ \E j \in DOMAIN chatJobs, delivered \in BOOLEAN :
       PublishResolved(j, delivered)
  \/ \E cmd \in inbox, textSent, imageSent, heard \in BOOLEAN :
       HandleRedisMessage(cmd, textSent, imageSent, heard)
  \/ \E result \in results : HandleMessageResult(result)
  \/ \E j \in DOMAIN chatJobs : CheckResult(j)
  \/ \E j \in DOMAIN chatJobs : WaitTimesOut(j)
  \/ \E j \in DOMAIN chatJobs : ChatJobCompleted(j)
  \/ \E j \in DOMAIN chatJobs : ChatJobFailed(j)
  \/ \E j \in DOMAIN chatJobs : ChatPromoteDelayed(j)

SpecChat == Init /\ [][NextChat]_vars

\* SpecProcess: the chat worker inside its process, Redis also failing the
\* progress update of a job
NextProcess ==
  \/ NextChat
  \/ \E j \in DOMAIN chatJobs, moved \in BOOLEAN : UpdateProgressRejected(j, moved)

SpecProcess == Init /\ [][NextProcess]_vars

\* queueMessage, called when the jobs queued before have ended and the
\* channels are quiet
QueueMessageOneByOne ==
  /\ \A j \in DOMAIN chatJobs : chatJobs[j].state \in {"completed", "failed"}
  /\ inbox = {}
  /\ results = {}
  /\ QueueChatJob("message")

\* SpecMessage: message jobs only, one after the other, each with all its
\* attempts and every loss the pub/sub layer and the chat network allow
NextMessage ==
  \/ QueueMessageOneByOne
  \/ \E j \in DOMAIN chatJobs : ProcessMessageJob(j)
  \/ \E j \in DOMAIN chatJobs, delivered \in BOOLEAN :
       PublishResolved(j, delivered)
  \/ \E cmd \in inbox, textSent, heard \in BOOLEAN :
       HandleRedisMessage(cmd, textSent, FALSE, heard)
  \/ \E result \in results : HandleMessageResult(result)
  \/ \E j \in DOMAIN chatJobs : CheckResult(j)
  \/ \E j \in DOMAIN chatJobs : WaitTimesOut(j)
  \/ \E j \in DOMAIN chatJobs : ChatJobCompleted(j)
  \/ \E j \in DOMAIN chatJobs : ChatJobFailed(j)
  \/ \E j \in DOMAIN chatJobs : ChatPromoteDelayed(j)

SpecMessage == Init /\ [][NextMessage]_vars

\* SpecBroker: requests of the trigger route relayed by the broker, the
\* publisher's connection going down and up, results of other processes'
\* requests on the result channel
NextBroker ==
  \/ \E c \in DOMAIN call : RouteSend(c)
  \/ TransportFails
  \/ TransportRecovers
  \/ \E c \in DOMAIN call, delivered \in BOOLEAN : PublishResolved(c, delivered)
  \/ \E c \in DOMAIN call : PublishRejected(c)
  \/ \E cmd \in inbox, textSent, heard \in BOOLEAN :
       HandleRedisMessage(cmd, textSent, FALSE, heard)
  \/ \E success \in BOOLEAN : ForeignResult(success)
  \/ \E result \in results : HandleMessageResult(result)
  \/ \E c \in DOMAIN call : CheckResult(c)
  \/ \E c \in DOMAIN call : WaitTimesOut(c)

SpecBroker == Init /\ [][NextBroker]_vars

\* SpecBrokerLive: the timers of the poll fire, the chat client and the
\* result handler run, and a publish is acknowledged while the connection
\* is up; nothing makes a connection that is down come back
BrokerFairness ==
  /\ WF_vars(\E c \in DOMAIN call, delivered \in BOOLEAN :
               PublishResolved(c, delivered))
  /\ WF_vars(\E c \in DOMAIN call : CheckResult(c))
  /\ WF_vars(\E c \in DOMAIN call : WaitTimesOut(c))
  /\ WF_vars(\E result \in results : HandleMessageResult(result))
  /\ WF_vars(\E cmd \in inbox, textSent, heard \in BOOLEAN :
               HandleRedisMessage(cmd, textSent, FALSE, heard))

SpecBrokerLive == SpecBroker /\ BrokerFairness

\* SpecRepublish: the requests of the route and of POST /trigger/retry-failed
\* with the chat client that answers every command it gets
NextRepublish ==
  \/ \E c \in DOMAIN call : RouteSend(c)
  \/ TransportFails
  \/ TransportRecovers
  \/ \E c \in DOMAIN call : PublishResolved(c, TRUE)
  \/ \E c \in DOMAIN call : PublishRejected(c)
  \/ \E cmd \in inbox, textSent \in BOOLEAN :
       HandleRedisMessage(cmd, textSent, FALSE, TRUE)
  \/ \E result \in results : HandleMessageResult(result)
  \/ \E c \in DOMAIN call : CheckResult(c)
  \/ \E c \in DOMAIN call : WaitTimesOut(c)
  \/ \E r \in DOMAIN retryCalls : RetryFailedMessages(r)
  \/ \E r \in DOMAIN retryCalls : RetryPublishResolved(r)
  \/ \E r \in DOMAIN retryCalls : RetryPublishRejected(r)

SpecRepublish == Init /\ [][NextRepublish]_vars

\* SpecSubscribe: the broker from its construction on, with the requests of
\* the route; a result envelope reaches the broker when it is subscribed
NextSubscribe ==
  \/ \E c \in DOMAIN call : RouteSend(c)
  \/ SubscribeResolved
  \/ TransportFails
  \/ TransportRecovers
  \/ \E c \in DOMAIN call : PublishResolved(c, TRUE)
  \/ \E c \in DOMAIN call : PublishRejected(c)
  \/ \E cmd \in inbox, textSent \in BOOLEAN :
       HandleRedisMessage(cmd, textSent, FALSE, isSubscribed)
  \/ \E result \in results : HandleMessageResult(result)
  \/ \E c \in DOMAIN call : CheckResult(c)
  \/ \E c \in DOMAIN call : WaitTimesOut(c)

SpecSubscribe == Init /\ [][NextSubscribe]_vars

\* SpecGroups: the requests of GET /groups and the chat client's answers
NextGroups ==
  \/ \E c \in DOMAIN groups.calls : GetAvailableGroups(c)
  \/ TransportFails
  \/ TransportRecovers
  \/ \E c \in DOMAIN groups.calls : GroupsPublishResolved(c)
  \/ \E c \in DOMAIN groups.calls : GroupsPublishRejected(c)
  \/ ClientAnswersGroups
  \/ HandleGroupsResponse
  \/ \E c \in DOMAIN groups.calls : CheckResponse(c)
  \/ \E c \in DOMAIN groups.calls : GroupsTimeOut(c)

SpecGroups == Init /\ [][NextGroups]_vars

\* SpecSend: the chat client's process from its start to its exit, with the
\* requests of the route that sends a command's reply. The handler's awaits
\* come back while the process lives.
NextSend ==
  \/ \E c \in DOMAIN call, image \in BOOLEAN : RouteCommand(c, image)
  \/ \E c \in DOMAIN call : PublishResolved(c, clientProcess # "exited")
  \/ ClientReady
  \/ ClientDisconnected
  \/ GracefulShutdown
  \/ ClientExits
  \/ \E cmd \in inbox : ClientReceive(cmd)
  \/ \E s \in sending, outcome \in TextOutcomes : ClientSendText(s, outcome)
  \/ \E s \in sending, outcome \in ImageOutcomes : ClientSendImage(s, outcome)
  \/ \E s \in sending : ClientPublish(s, TRUE)

SpecSend ==
  /\ Init
  /\ [][NextSend]_vars
  /\ WF_vars(\E cmd \in inbox : ClientReceive(cmd))
  /\ WF_vars(\E s \in sending, outcome \in TextOutcomes : ClientSendText(s, outcome))
  /\ WF_vars(\E s \in sending, outcome \in ImageOutcomes : ClientSendImage(s, outcome))
  /\ WF_vars(\E s \in sending : ClientPublish(s, TRUE))

\* the inbound messages of SpecClient: a member of an allowed group greets
\* the bot, which answers when it is ready
ClientMessages ==
  {m \in Messages : /\ m.groupsOnly /\ m.adminPhone = "" /\ m.type = "chat"
                    /\ m.isGroup /\ m.name = "Test bot"
                    /\ m.number = "6281" /\ m.env = "ok"
                    /\ m.body = Prefix}

\* SpecClient: SpecSend with the messages that come in from the chats
NextClient ==
  \/ NextSend
  \/ \E m \in ClientMessages :
       m.isReady = isReady /\ clientProcess # "exited" /\ ReceiveMessage(m)
  \/ HandleMessage

SpecClient == Init /\ [][NextClient]_vars

\* time passes: the age of an entry gets beyond the maximum age
EntryExpires(id) ==
  /\ id \in DOMAIN messageQueue
  /\ id \notin expired
  /\ expired' = expired \cup {id}
  /\ UNCHANGED <<dbVars, queueVars, now, syncVars, schedVars, procVars, botVars,
                 ipcVars,
                 chatVars>>

\* messageBroker.ts lines 260-268: cleanupOldMessages deletes the entries
\* whose timestamp is before the cutoff, whatever their status
CleanupOldMessages ==
  /\ messageQueue' = [id \in DOMAIN messageQueue \ expired |-> messageQueue[id]]
  /\ expired' = {}
  /\ UNCHANGED <<dbVars, queueVars, now, syncVars, schedVars, procVars, botVars,
                 ipcVars,
                 chatJobs, call, transportUp, inbox, results, chatLog>>

\* SpecCleanup: requests of the trigger route over a time long enough for
\* their entries to grow old. cleanupOldMessages is a public method that
\* no route, timer or worker of the program calls, so it may run but
\* nothing makes it run.
NextCleanup ==
  \/ \E c \in DOMAIN call : RouteSend(c)
  \/ \E c \in DOMAIN call, delivered \in BOOLEAN : PublishResolved(c, delivered)
  \/ \E cmd \in inbox, textSent, heard \in BOOLEAN :
       HandleRedisMessage(cmd, textSent, FALSE, heard)
  \/ \E result \in results : HandleMessageResult(result)
  \/ \E c \in DOMAIN call : CheckResult(c)
  \/ \E c \in DOMAIN call : WaitTimesOut(c)
  \/ \E id \in DOMAIN messageQueue : EntryExpires(id)
  \/ CleanupOldMessages

SpecCleanup ==
  /\ Init
  /\ [][NextCleanup]_vars
  /\ BrokerFairness
  /\ WF_vars(\E id \in DOMAIN messageQueue : EntryExpires(id))

\* SpecSched: the scheduler over any content of the services table, fired by
\* its timer and by triggerManualSync(), its adds succeeding or not
\* SpecBot: the chat client's bot handling one inbound message after the
\* other, whatever its settings, the chat and the sender
NextBot ==
  \/ \E m \in Messages : ReceiveMessage(m)
  \/ HandleMessage

SpecBot == Init /\ [][NextBot]_vars

\* SpecCommand: handleCommand called with one text after the other, the
\* services behind its handlers answering, finding nothing, or failing
NextCommand ==
  \/ \E c \in Commands, env \in Environments : CallHandleCommand(c, env)
  \/ HandleCommandEnds

SpecCommand == Init /\ [][NextCommand]_vars

\* SpecLookup: the commands that take an identifier, while the service
\* routes soft-delete services
NextLookup ==
  \/ \E t \in Targets : DeleteService(t)
  \/ \E identifier \in Identifiers : ServiceCommands(identifier)

SpecLookup == Init /\ [][NextLookup]_vars

InitSched ==
  /\ servicesTable \in [Targets -> ServiceRow]
  /\ serviceLogsTable = EmptyBag
  /\ jobs = <<>>
  /\ completed = <<>>
  /\ failed = <<>>
  /\ now = 0
  /\ handler = [h \in Handlers |-> Idle]
  /\ lastSync = [t \in Targets |-> NoSync]
  /\ cronTask = "scheduled"
  /\ isRunning = FALSE
  /\ run = [c \in Calls |-> NoCall]
  /\ ChatInit
  /\ RestInit

NextSched ==
  \/ Tick
  \/ Start
  \/ Stop
  \/ \E c \in Calls, via \in {"timer", "manual"} : Fire(c, via)
  \/ \E c \in Calls : QueryServices(c)
  \/ \E c \in Calls : QueryFails(c)
  \/ \E c \in Calls, i \in 1 .. Cardinality(Targets) : AddFulfilled(c, i)
  \/ \E c \in Calls, i \in 1 .. Cardinality(Targets) : AddRejected(c, i)
  \/ \E c \in Calls : Summarize(c)

SpecSched == InitSched /\ [][NextSched]_vars

\* the remote API answering with its whole history
FullHistory == {[ok |-> TRUE, success |-> TRUE, data |-> RemoteHistory]}

\* SpecStop: the scheduler fired by its timer only, started and stopped at
\* any moment, and the worker process handling what is in the queue
NextStop ==
  \/ Start
  \/ Stop
  \/ \E c \in Calls : Fire(c, "timer")
  \/ \E c \in Calls : QueryServices(c)
  \/ \E c \in Calls, i \in 1 .. Cardinality(Targets) : AddFulfilled(c, i)
  \/ \E c \in Calls : Summarize(c)
  \/ \E id \in DOMAIN jobs : PromoteDelayed(id)
  \/ \E h \in Handlers : FetchHistory(h, FullHistory)
  \/ Worker

\* the worker process runs its handlers whatever the scheduler process does
WorkerFairness ==
  /\ WF_vars(\E id \in DOMAIN jobs : PromoteDelayed(id))
  /\ WF_vars(\E h \in Handlers : FetchHistory(h, FullHistory))
  /\ WF_vars(Worker)

SpecStop == Init /\ [][NextStop]_vars /\ WorkerFairness

----------------------------------------------------------------------------
(* The claims about the sync worker *)

\* how many rows hold the pair (target t, external record id r)
CopiesOfPair(t, r) ==
  CopiesOfAll({row \in RowsOf(t) : row.recordId = r})

\* C1: the store never holds two usage records with the same pair (target
\* id, external record id). The code has no unique index and looks up before
\* it inserts, so two handlers of one target break it.
C1_PairUnique ==
  \A t \in Targets, r \in RecordIds : CopiesOfPair(t, r) <= 1

\* C2: while two handlers of the same target are in flight together, each
\* external record id is stored at most once for that target, however their
\* lookup and insert steps interleave.
C2_ConcurrentHandlersStoreOnce ==
  \A h, g \in Handlers :
    (h # g /\ Busy(h) /\ Busy(g) /\ ServiceOf(h) = ServiceOf(g))
      => \A r \in Range(handler[h].history) \cup Range(handler[g].history) :
           CopiesOfPair(ServiceOf(h), r) <= 1

\* C3: a run for a target that follows a run which returned normally on the
\* identical remote list inserts nothing and does not throw; when no other
\* handler inserts for the target meanwhile, the target's row count is the
\* one the first run left.
C3_SecondRunInsertsNothing ==
  \A h \in Handlers :
    (/\ Busy(h)
     /\ handler[h].prev.valid
     /\ handler[h].response = "ok"
     /\ handler[h].history = handler[h].prev.history)
      => /\ handler[h].pc \in {"lookup", "return"}
         /\ handler[h].inserted = <<>>
         /\ (handler[h].others = {}
               => RowCount(ServiceOf(h)) = handler[h].prev.rows)

\* a second run on the list the first run stored has returned
C3_Witness ==
  \E h \in Handlers :
    /\ handler[h].pc = "return"
    /\ handler[h].prev.valid
    /\ handler[h].response = "ok"
    /\ handler[h].history = handler[h].prev.history
    /\ Len(handler[h].history) = 2
    /\ handler[h].others = {}
    /\ RowCount(ServiceOf(h)) = 2

\* C4: when a run for target T that fetched list R returns, the ids stored
\* for T are those stored before the run, those of R, and those other
\* handlers inserted meanwhile; the run inserted only records of R that were
\* not stored before it, all of them when no other handler inserted; and
\* progress 100 is on the job only once the run's rows are in the table.
C4_SyncStoresUnseen ==
  \A h \in Handlers :
    Busy(h) =>
      LET t == ServiceOf(h)
          R == Range(handler[h].history)
          ins == Range(handler[h].inserted)
      IN /\ (handler[h].pc = "return" /\ handler[h].response = "ok")
              => /\ StoredIds(t) = handler[h].before \cup R \cup handler[h].others
                 /\ ins \subseteq R \ handler[h].before
                 /\ (handler[h].others = {} => ins = R \ handler[h].before)
         /\ jobs[handler[h].job].progress = 100
              => /\ handler[h].pc = "return"
                 /\ ins # {}
                 /\ \A r \in ins : CopiesOfPair(t, r) >= 1

\* the scenario of the specification: 100 stored, the remote list is
\* 100, 101, the run inserted 101 alone and reported progress 100
C4_Witness ==
  \E h \in Handlers :
    /\ handler[h].pc = "return"
    /\ handler[h].before = {100}
    /\ handler[h].history = <<100, 101>>
    /\ handler[h].inserted = <<101>>
    /\ jobs[handler[h].job].progress = 100
    /\ CopiesOfPair(ServiceOf(h), 100) = 1
    /\ CopiesOfPair(ServiceOf(h), 101) = 1

Min(a, b) == IF a < b THEN a ELSE b

\* the backoff delays grow from each attempt to the next
Increasing(delays) ==
  \A i \in 1 .. Len(delays) - 1 : delays[i] < delays[i + 1]

C10_BadAnswerThrows ==
  \A h \in Handlers :
    handler[h].response \in {"non2xx", "unsuccessful"}
      => /\ handler[h].pc = "throw"
         /\ jobs[handler[h].job].state = "active"
         /\ handler[h].inserted = <<>>
         /\ (handler[h].others = {}
               => StoredIds(ServiceOf(h)) = handler[h].before)

\* a 2xx answer with success = false has made a handler throw
C10_Witness ==
  \E h \in Handlers :
    /\ handler[h].response = "unsuccessful"
    /\ handler[h].pc = "throw"

----------------------------------------------------------------------------
(* The scheduler's claims *)

\* the targets the specification calls eligible: shared hosting, active and
\* not soft-deleted
Eligible(t) ==
  /\ servicesTable[t].type = SHARED_HOSTING
  /\ servicesTable[t].status = 1
  /\ ~servicesTable[t].deletedAt

CallsFor(c, t) == {i \in DOMAIN run[c].calls : run[c].calls[i].serviceId = t}

AllFulfilled(c) ==
  \A i \in DOMAIN run[c].calls : run[c].calls[i].status = "fulfilled"

\* C5: a scheduler run whose adds all succeeded has enqueued exactly one job
\* for every eligible target, with a delay of at least 0 and below 30000
\* ms, and no job for a target that is not eligible.
C5_OneJobPerEligibleTarget ==
  \A c \in Calls :
    (run[c].outcome = "completed" /\ ~Running(c) /\ AllFulfilled(c)) =>
      \A t \in Targets :
        IF Eligible(t)
          THEN /\ Cardinality(CallsFor(c, t)) = 1
               /\ \A i \in CallsFor(c, t) :
                    /\ run[c].calls[i].delay >= 0
                    /\ run[c].calls[i].delay < 30000
                    /\ run[c].calls[i].jobId \in DOMAIN jobs
                    /\ jobs[run[c].calls[i].jobId].serviceId = t
          ELSE /\ CallsFor(c, t) = {}
               /\ \A id \in DOMAIN jobs : jobs[id].serviceId # t

C5_Witness ==
  \E c \in Calls :
    /\ run[c].outcome = "completed" /\ ~Running(c) /\ AllFulfilled(c)
    /\ \E t \in Targets : Eligible(t) /\ CallsFor(c, t) # {}
    /\ \E t \in Targets : ~Eligible(t)
    /\ \E i \in DOMAIN run[c].calls : run[c].calls[i].delay > 0

\* C6: at most one run body is in progress at any moment, the guard is held
\* exactly while one is, and a call made during a run has returned without
\* querying or enqueuing anything and is not kept for later.
C6_NoOverlappingRuns ==
  /\ Cardinality({c \in Calls : Running(c)}) <= 1
  /\ isRunning <=> \E c \in Calls : Running(c)
  /\ \A c \in Calls :
       run[c].outcome = "skipped" =>
         ~Running(c) /\ ~run[c].queried /\ run[c].calls = <<>>

C6_Witness ==
  \E c, d \in Calls :
    /\ run[c].outcome = "skipped"
    /\ run[d].pc = "enqueue"
    /\ \E i \in DOMAIN run[d].calls : run[d].calls[i].status = "fulfilled"

Day(ts) == ts \div TicksPerDay

\* C7: the scheduler's jobs of one target on one calendar day are one job:
\* a second run on the same day adds no second job for the target.
C7_OneDailyJobPerDay ==
  \A id1, id2 \in DOMAIN jobs :
    (/\ id1[1] = "daily-sync"
     /\ id2[1] = "daily-sync"
     /\ id1[2] = id2[2]
     /\ Day(id1[3]) = Day(id2[3])) => id1 = id2

\* C8: when the adds of a set F of targets fail, every other eligible target
\* still has exactly one job, the run ends without raising, and its summary
\* counts |F| failed and the rest of the eligible targets succeeded.
C8_FailedAddsAreCounted ==
  \A c \in Calls :
    (run[c].queried /\ ~Running(c) /\ run[c].calls # <<>>) =>
      LET F == {t \in Targets :
                  \E i \in CallsFor(c, t) : run[c].calls[i].status = "rejected"}
          eligible == {t \in Targets : Eligible(t)}
      IN /\ run[c].outcome = "completed"
         /\ run[c].failed = Cardinality(F)
         /\ run[c].successful = Cardinality(eligible) - Cardinality(F)
         /\ \A t \in eligible \ F :
              /\ Cardinality(CallsFor(c, t)) = 1
              /\ \A i \in CallsFor(c, t) :
                   /\ run[c].calls[i].status = "fulfilled"
                   /\ run[c].calls[i].jobId \in DOMAIN jobs
                   /\ jobs[run[c].calls[i].jobId].serviceId = t

C8_Witness ==
  \E c \in Calls :
    /\ run[c].outcome = "completed"
    /\ run[c].failed = 1
    /\ run[c].successful = 1
    /\ \E i \in DOMAIN run[c].calls :
         /\ run[c].calls[i].status = "fulfilled"
         /\ run[c].calls[i].jobId \in DOMAIN jobs

----------------------------------------------------------------------------
(* The sync worker under the service routes *)

\* C11: a job picked up while its target is soft-deleted, not shared hosting
\* or inactive in the store goes straight to a normal return: no remote
\* call, no insert, no error, no retry, whatever type the job was enqueued
\* with.
C11_DroppedWhenNotSyncable ==
  [][\A h \in Handlers :
       /\ (/\ handler[h].pc = "idle"
           /\ handler'[h].pc # "idle"
           /\ ~Eligible(jobs[handler'[h].job].serviceId))
            => /\ handler'[h].pc = "return"
               /\ handler'[h].response = "none"
       /\ (handler[h].pc = "return" /\ handler[h].response = "none")
            => /\ handler[h].inserted = <<>>
               /\ handler'[h] # handler[h]
                    => /\ handler'[h].pc = "idle"
                       /\ serviceLogsTable' = serviceLogsTable
                       /\ jobs'[handler[h].job].state = "completed"
                       /\ jobs'[handler[h].job].attemptsMade =
                            jobs[handler[h].job].attemptsMade]_vars

C11_Witness ==
  \E h \in Handlers :
    /\ handler[h].pc = "return"
    /\ handler[h].response = "none"
    /\ servicesTable[ServiceOf(h)].type = VPS
    /\ ~servicesTable[ServiceOf(h)].deletedAt

----------------------------------------------------------------------------
(* The failed set of the queue *)

----------------------------------------------------------------------------
(* The message broker's claims *)

Callers == 1 .. MaxCallers

EntryStatus(queue, id) ==
  IF id \in DOMAIN queue THEN queue[id].status ELSE "deleted"

\* C13: a call that stops waiting while its entry is still pending returns
\* the timeout failure as a value; the entry is kept and stays pending; a
\* result that comes later moves the entry to sent or failed and leaves what
\* the caller got as it is.
C13_TimeoutKeepsPendingEntry ==
  [][\A c \in Callers :
       /\ (/\ call[c].pc = "wait"
           /\ call'[c].pc # "wait"
           /\ EntryStatus(messageQueue, call[c].id) = "pending")
            => /\ call'[c].pc = "returned"
               /\ call'[c].result = "timeout"
               /\ messageQueue' = messageQueue
       /\ (call[c].pc = "returned" /\ call[c].result = "timeout")
            => /\ EntryStatus(messageQueue', call[c].id) \in {"pending", "sent", "failed"}
               /\ call'[c].pc = "returned" => call'[c] = call[c]
               /\ EntryStatus(messageQueue', call[c].id) # EntryStatus(messageQueue, call[c].id)
                    => \E r \in results \ results' :
                         r.messageId = call[c].id]_vars

C13_Witness ==
  \E c \in Callers :
    /\ call[c].pc = "returned"
    /\ call[c].result = "timeout"
    /\ EntryStatus(messageQueue, call[c].id) = "sent"

\* C14: every sendTriggerToGroup call returns, whatever the chat client and
\* the transport do.
C14_SendAlwaysReturns ==
  \A c \in Callers : (call[c].pc = "publish") ~> (call[c].pc = "returned")

\* C15: a call returns success only when a result envelope with its own id
\* and success = true, published by the chat client for its command, was
\* handled; an envelope changes the entry of its id only, and one with an
\* id the broker does not know changes nothing.
C15_SuccessOnlyByOwnResult ==
  [][/\ \A c \in Callers :
          call'[c].result = "success"
            => /\ EntryStatus(messageQueue', call'[c].id) = "sent"
               /\ call'[c].id \in DOMAIN chatLog'
               /\ chatLog'[call'[c].id].success
     /\ \A id \in DOMAIN messageQueue :
          EntryStatus(messageQueue', id) # EntryStatus(messageQueue, id)
            => \E r \in results \ results' :
                 /\ r.messageId = id
                 /\ EntryStatus(messageQueue', id) = IF r.success THEN "sent" ELSE "failed"
     /\ (\E r \in results \ results' : r.messageId \notin DOMAIN messageQueue)
          => messageQueue' = messageQueue]_vars

C15_Witness ==
  \E c, d \in Callers :
    /\ call[c].result = "success"
    /\ call[d].pc = "wait"
    /\ EntryStatus(messageQueue, call[d].id) = "pending"
    /\ \A r \in results : r.messageId # ForeignId
    /\ transportUp

\* C16: a sendTriggerToGroup call creates one entry, its own, and publishes
\* its command at most once; a failure or a timeout publishes nothing more.
C16_OneEntryOnePublish ==
  [][/\ \A c \in Callers :
          /\ call'[c].published <= 1
          /\ call[c].pc \in {"wait", "returned"}
               => call'[c].published = call[c].published
          /\ (call[c].pc = "idle" /\ call'[c].pc # "idle")
               => /\ DOMAIN messageQueue' = DOMAIN messageQueue \cup {call'[c].id}
                  /\ call'[c].id \notin DOMAIN messageQueue
                  /\ EntryStatus(messageQueue', call'[c].id) = "pending"
     /\ DOMAIN messageQueue' # DOMAIN messageQueue
          => \E c \in Callers : call[c].pc = "idle" /\ call'[c].pc # "idle"]_vars

C16_Witness ==
  \E c, d \in Callers :
    /\ call[c].result = "timeout"
    /\ call[c].published = 1
    /\ call[d].result = "failed"
    /\ call[d].published = 1
    /\ Cardinality(DOMAIN messageQueue) = 2

----------------------------------------------------------------------------
(* The chat worker's claims *)

\* the send commands of job j that the chat client turned into a message
\* in the group
SentFor(j) == {id \in DOMAIN chatLog : id[1] = j /\ chatLog[id].text}

\* C18: the chat client has sent the text of a completed chat message job
\* to the group exactly once over all the attempts of the job.
C18_CompletedMessageSentOnce ==
  \A j \in DOMAIN chatJobs :
    (chatJobs[j].kind = "message" /\ chatJobs[j].state = "completed")
      => Cardinality(SentFor(j)) = 1

\* C19: an attempt of a chat message job ends completed exactly when the
\* broker returned success; any other answer counts one failed attempt, and
\* the job waits for a retry until three attempts have failed, when it is
\* failed for good. No job is attempted more than three times.
C19_CompletesIffBrokerSucceeded ==
  [][\A j \in DOMAIN chatJobs :
       chatJobs[j].kind = "message"
         => /\ chatJobs'[j].attemptsStarted <= whatsappAttempts
            /\ (chatJobs[j].state = "active" /\ chatJobs'[j].state # "active")
                 => /\ call[j].pc = "returned"
                    /\ IF call[j].result = "success"
                         THEN /\ chatJobs'[j].state = "completed"
                              /\ chatJobs'[j].attemptsMade = chatJobs[j].attemptsMade
                         ELSE /\ chatJobs'[j].attemptsMade = chatJobs[j].attemptsMade + 1
                              /\ chatJobs'[j].state =
                                   IF chatJobs'[j].attemptsMade < whatsappAttempts
                                     THEN "delayed" ELSE "failed"
            /\ chatJobs[j].state \in {"completed", "failed"}
                 => chatJobs'[j] = chatJobs[j]]_vars

C19_Witness ==
  \E j \in DOMAIN chatJobs :
    /\ chatJobs[j].kind = "message"
    /\ chatJobs[j].state = "failed"
    /\ chatJobs[j].attemptsStarted = whatsappAttempts
    /\ chatJobs[j].attemptsMade = whatsappAttempts
    /\ call[j].result = "timeout"

\* C20: when the chat client sent the text of a command but failed to send
\* its image, the result it publishes says success = false.
C20_ImageFailureReported ==
  \A id \in DOMAIN chatLog :
    (chatLog[id].text /\ chatLog[id].image = "failed") => ~chatLog[id].success

----------------------------------------------------------------------------
(* The worker process *)

\* C21: whatever fails while a worker handles a job, the worker process
\* keeps running.
C21_WorkerProcessSurvives == workerProcess = "running"

----------------------------------------------------------------------------
(* The scheduler's lifecycle *)

\* C22: once stop() has dropped the cron task no run body is started any
\* more, start() does not bring the task back, stop() itself and whatever
\* follows remove no job from the queue or undo a completed one, and the
\* worker handles all that is in the queue to its end.
C22_StopDisarmsAndKeepsJobs ==
  /\ [][/\ cronTask = "null"
             => /\ cronTask' = "null"
                /\ \A c \in Calls : run'[c].pc = "query" => run[c].pc = "query"
                /\ \A id \in DOMAIN jobs :
                     /\ id \in DOMAIN jobs'
                     /\ jobs[id].state = "completed" => jobs'[id] = jobs[id]
        /\ (cronTask # "null" /\ cronTask' = "null")
             => UNCHANGED <<queueVars, dbVars, syncVars>>]_vars
  /\ (cronTask = "null")
       ~> (\A id \in DOMAIN jobs : jobs[id].state = "completed")

C22_Witness ==
  /\ cronTask = "null"
  /\ \E c \in Calls : run[c].outcome = "completed"
  /\ \A c \in Calls : run[c].pc = "idle"
  /\ \E id \in DOMAIN jobs : jobs[id].state \in {"delayed", "waiting"}

----------------------------------------------------------------------------
(* The broker's map over time *)

\* C23: every entry of the broker's map, whatever its status, is removed
\* some time after its age has passed the maximum age.
C23_ExpiredEntriesRemoved ==
  \A c \in Callers :
    (MessageId(c, 1) \in expired) ~> (MessageId(c, 1) \notin DOMAIN messageQueue)

----------------------------------------------------------------------------
(* The frame of a sync job *)

\* C24: a step of a sync job for target T keeps every stored row as it is
\* (no row is deleted or changed) and adds rows of T only; the table changes
\* in no other step, so the rows of every other target are what they were.
C24_SyncOnlyAddsOwnRows ==
  [][serviceLogsTable' # serviceLogsTable
       => \E h \in Handlers :
            /\ handler[h].pc = "insert"
            /\ handler'[h].pc = "progress"
            /\ serviceLogsTable \sqsubseteq serviceLogsTable'
            /\ \A r \in BagToSet(serviceLogsTable' (-) serviceLogsTable) :
                 r.serviceId = jobs[handler[h].job].serviceId
            /\ \A t \in Targets \ {jobs[handler[h].job].serviceId} :
                 \A r \in BagToSet(serviceLogsTable) \cup BagToSet(serviceLogsTable') :
                   r.serviceId = t
                     => CopiesIn(r, serviceLogsTable') = CopiesIn(r, serviceLogsTable)]_vars

C24_Witness ==
  \E h \in Handlers :
    /\ handler[h].pc = "progress"
    /\ handler[h].inserted # <<>>
    /\ \E t \in Targets \ {ServiceOf(h)} : RowsOf(t) # {}

----------------------------------------------------------------------------
(* The retry strategy of the scheduled jobs README *)

----------------------------------------------------------------------------
(* The chat bot's access rules *)

\* the message passes the checks every reply depends on
C26_Addressed(m) ==
  /\ m.isReady
  /\ m.type = "chat"
  /\ StartsWith(ToLowerCase(Trim(m.body)), Prefix)
  /\ m.isGroup
  /\ m.name \in AllowedGroups

C26_NonAdmin(m) == m.adminPhone # "" /\ m.number # m.adminPhone

\* the bot answered in the chat with a welcome or the reply of a command
C26_Answered(out) ==
  \E i \in DOMAIN out.sent :
    out.sent[i].to = "group" /\ out.sent[i].kind # "disabled"

\* C26, as stated: a command reply is sent only to a text message with the
\* prefix from an allowed group, the bot ready, and from the admin when one
\* is configured; a private-chat message gets no reply; a non-admin sender
\* of such a message gets only a private refusal and no command is executed.
C26_NonAdminGetsPrivateRefusal ==
  inbound.pc = "handled" =>
    LET m == inbound.message  out == inbound.out
    IN  /\ C26_Answered(out) => C26_Addressed(m) /\ ~C26_NonAdmin(m)
        /\ ~m.isGroup => out.sent = <<>>
        /\ C26_Addressed(m) /\ C26_NonAdmin(m)
             => /\ out.sent = <<Sent("private", "refusal")>>
                /\ out.response = NoResponse

\* C26, amended: a command reply is sent only to a text message with the
\* prefix from an allowed group, the bot ready and enabled, and from the
\* admin when one is configured; a private-chat message gets no reply;
\* while the bot is enabled a non-admin sender of such a message gets only
\* a private refusal, and while it is disabled every sender of such a
\* message gets only the notice that the bot is disabled, in the group; in
\* both cases no command is executed.
C26_DisabledNoticeBeforeRefusal ==
  inbound.pc = "handled" =>
    LET m == inbound.message  out == inbound.out
    IN  /\ C26_Answered(out)
             => C26_Addressed(m) /\ m.groupsOnly /\ ~C26_NonAdmin(m)
        /\ ~m.isGroup => out.sent = <<>>
        /\ C26_Addressed(m) /\ m.groupsOnly /\ C26_NonAdmin(m)
             => /\ out.sent = <<Sent("private", "refusal")>>
                /\ out.response = NoResponse
        /\ C26_Addressed(m) /\ ~m.groupsOnly
             => /\ out.sent = <<Sent("group", "disabled")>>
                /\ out.response = NoResponse

\* a non-admin sender was refused in private, and the bot was enabled
C26_Witness ==
  /\ inbound.pc = "handled"
  /\ C26_Addressed(inbound.message)
  /\ C26_NonAdmin(inbound.message)
  /\ inbound.message.groupsOnly
  /\ inbound.out.sent = <<Sent("private", "refusal")>>

----------------------------------------------------------------------------
(* The routing of the chat commands *)

\* the handlers of the keywords that take no argument, as the claim lists
\* them
C27_Listed ==
  {<<<<"c", "o", "m", "m", "a", "n", "d", "s">>, "commands">>,
   <<<<"h", "e", "l", "p">>, "help">>,
   <<<<"h", "e", "a", "l", "t", "h">>, "health">>,
   <<<<"s", "t", "a", "t", "u", "s">>, "status">>,
   <<<<"s", "e", "r", "v", "i", "c", "e", "s">>, "services">>}

\* the handlers of the keywords that take an identifier
C27_WithIdentifier ==
  {<<<<"s", "e", "r", "v", "i", "c", "e">>, "details">>,
   <<<<"l", "o", "g", "s">>, "logs">>,
   <<<<"s", "e", "r", "v", "i", "c", "e", "-", "s", "t", "a", "t", "u", "s">>, "serviceStatus">>}

C27_Keywords == {p[1] : p \in C27_Listed \cup C27_WithIdentifier}

\* C27, as stated: after the prefix, in any case, each listed keyword is
\* routed to its handler, the keywords with an identifier pass it on, a
\* text without the prefix gets the guidance reply and every other keyword
\* gets the unknown-command reply.
C27_OtherKeywordsUnknown ==
  command.pc = "returned" /\ command.result.kind = "return" =>
    LET c == command.parts
        k == ToLowerCase(c.keyword)
        r == command.result
    IN  /\ c.prefix = <<>> => r.route = "guidance"
        /\ c.prefix # <<>> /\ c.argument = <<>>
             => \A p \in C27_Listed : k = p[1] => r.route = p[2]
        /\ c.prefix # <<>> /\ c.argument # <<>>
             => \A p \in C27_WithIdentifier :
                  k = p[1] => /\ r.route = p[2]
                              /\ r.identifier = ToLowerCase(c.argument)
        /\ c.prefix # <<>> /\ k # <<>> /\ k \notin C27_Keywords
             => r.route = "unknown"

\* the handler a prefixed command is routed to
C27_Route(k, argument) ==
  IF argument = <<>>
    THEN CASE k \in {<<"c", "o", "m", "m", "a", "n", "d", "s">>,
                     <<"l", "i", "s", "t">>} -> "commands"
           [] k \in {<<"h", "e", "l", "p">>, <<>>} -> "help"
           [] k = <<"h", "e", "a", "l", "t", "h">> -> "health"
           [] k = <<"s", "t", "a", "t", "u", "s">> -> "status"
           [] k = <<"s", "e", "r", "v", "i", "c", "e", "s">> -> "services"
           [] OTHER -> "unknown"
    ELSE CASE k = <<"s", "e", "r", "v", "i", "c", "e">> -> "details"
           [] k = <<"l", "o", "g", "s">> -> "logs"
           [] k = <<"s", "e", "r", "v", "i", "c", "e", "-", "s", "t", "a", "t", "u", "s">>
                -> "serviceStatus"
           [] OTHER -> "unknown"

\* C27, amended: handleCommand lower-cases and trims its text; a text
\* without the prefix gets the guidance reply. After the prefix, 'commands'
\* and 'list' are routed to list-commands, 'help' and the empty text to
\* help, 'health', 'status' and 'services' to their handlers, 'service <x>'
\* to target-detail, 'logs <x>' to target-logs and 'service-status <x>' to
\* target-status-with-chart, the identifier being x in lower case; every
\* other text gets the unknown-command reply.
C27_ListAndEmptyRouted ==
  command.pc = "returned" /\ command.result.kind = "return" =>
    LET c == command.parts
        k == ToLowerCase(c.keyword)
        r == command.result
    IN  /\ c.prefix = <<>> => r.route = "guidance"
        /\ c.prefix # <<>> => r.route = C27_Route(k, c.argument)
        /\ r.route \in {"details", "logs", "serviceStatus"}
             => r.identifier = ToLowerCase(c.argument)

\* 'service Api', typed after blanks and the prefix in capitals, reached
\* the target-detail handler with the identifier 'api'
C27_Witness ==
  /\ command.pc = "returned"
  /\ command.parts.pad = 1
  /\ command.parts.prefix = <<"!", "S", "Y", "S", "T", "R", "A", "C", "K">>
  /\ command.parts.keyword = <<"s", "e", "r", "v", "i", "c", "e">>
  /\ command.parts.argument = <<"A", "p", "i">>
  /\ command.result.route = "details"
  /\ command.result.identifier = <<"a", "p", "i">>

\* C28: handleCommand returns a text reply for every text and never throws:
\* a malformed command, a target that is not found and a failing handler
\* each end in a reply.
C28_AlwaysReturnsText ==
  command.pc = "returned" =>
    /\ command.result.kind = "return"
    /\ command.result.reply \in
         {"guidance", "commands", "help", "health", "status", "services",
          "details", "logs", "serviceStatus", "notFound", "failed", "unknown"}
    /\ command.result.route = "unknown" => command.result.reply = "unknown"
    /\ command.env = "notFound"
       /\ command.result.route \in {"details", "logs", "serviceStatus"}
         => command.result.reply = "notFound"
    /\ command.env = "dbFails"
       /\ command.result.route \in
            {"health", "status", "services", "details", "logs"}
         => command.result.reply = "failed"

\* the query of the target-logs handler failed and the caller got the
\* reply that says so
C28_Witness ==
  /\ command.pc = "returned"
  /\ command.env = "dbFails"
  /\ command.result.kind = "return"
  /\ command.result.route = "logs"
  /\ command.result.reply = "failed"

----------------------------------------------------------------------------
(* The identifier of the chat commands *)

\* C29: the commands service, logs and service-status resolve the same
\* identifier over the same store to the same target, or all to none: by id
\* when the identifier is an integer, by the first row whose name contains
\* it when it is not.
C29_SameTargetSelected ==
  lookup.pc = "resolved" =>
    /\ lookup.details = lookup.logs
    /\ lookup.logs = lookup.serviceStatus

----------------------------------------------------------------------------
(* The release of the overlap guard *)

\* C30: a run of the scheduler that took the overlap guard releases it when
\* it ends, whether the store returned no target, every add succeeded, some
\* add failed or the query itself failed: the guard is held only while a
\* run is between its start and its end, and a timer fire or manual
\* trigger is skipped only while such a run is in progress.
C30_GuardReleasedWhenRunEnds ==
  /\ [](isRunning <=> \E c \in Calls : Running(c))
  /\ [][\A c \in Calls :
          /\ Running(c) /\ ~Running(c)'
               => /\ run'[c].outcome \in {"nothing", "completed", "error"}
                  /\ ~isRunning'
          /\ run'[c] # run[c] /\ run'[c].outcome = "skipped"
               => \E d \in Calls : Running(d)]_vars

\* a run some of whose adds failed has ended and the guard is free
C30_Witness ==
  /\ ~isRunning
  /\ \E c \in Calls :
       /\ run[c].pc = "idle"
       /\ run[c].outcome = "completed"
       /\ run[c].failed > 0
       /\ run[c].successful > 0

----------------------------------------------------------------------------
(* The scheduler's lifecycle *)

\* C31: start() arms the timer in whatever state the scheduler is, also
\* after an earlier stop(): there is no state in which a call of start()
\* returns with the timer not armed, so that a timer fire after stop() and
\* start() executes the run body again.
C31_StartArmsTimer == ~ENABLED (Start /\ ~TimerArmed')

(* The retries of failed messages *)

\* C32: retryFailedMessages changes only entries that are failed with a
\* retryCount below maxRetries: every step that raises an entry's retryCount
\* or puts an entry back to pending is made on such an entry and raises the
\* count by one; and no entry's retryCount is ever above maxRetries.
C32_RetriesOnlyFailedBelowMax ==
  /\ [](\A id \in DOMAIN messageQueue : messageQueue[id].retryCount <= maxRetries)
  /\ [][\A id \in DOMAIN messageQueue \cap DOMAIN messageQueue' :
          messageQueue'[id] # messageQueue[id] /\ messageQueue'[id].status = "pending"
            => /\ messageQueue[id].status = "failed"
               /\ messageQueue[id].retryCount < maxRetries
               /\ messageQueue'[id].retryCount = messageQueue[id].retryCount + 1]_vars

(* The chat client *)

\* C33: a result envelope with success = true is published for a message id
\* only when the text has gone out to the group chat.
C33_SuccessOnlyIfTextDelivered ==
  \A id \in DOMAIN chatLog :
    chatLog[id].envelopes > 0 /\ chatLog[id].success => chatLog[id].text = "sent"

\* C34: the chat client publishes exactly one result envelope for every send
\* command it receives: at every moment the commands received for an id are
\* the envelopes published for it and the calls of the handler in progress
\* for it, and while the process lives a received command leads to its
\* envelope, whether the send succeeded, returned false or threw.
C34_OneEnvelopePerCommand ==
  /\ [](\A id \in DOMAIN chatLog :
         chatLog[id].commands =
           chatLog[id].envelopes
             + Cardinality({s \in sending : s.messageId = id}))
  /\ \A c \in Callers :
       (SendsOf(MessageId(c, 1)).envelopes < SendsOf(MessageId(c, 1)).commands)
         ~> \/ SendsOf(MessageId(c, 1)).envelopes
                = SendsOf(MessageId(c, 1)).commands
            \/ clientProcess = "exited"

\* one command's text went out and its image threw, another command's send
\* returned false, and each has its one envelope
C34_Witness ==
  \E id, other \in DOMAIN chatLog :
    /\ chatLog[id].commands = 1 /\ chatLog[id].envelopes = 1
    /\ chatLog[id].text = "sent" /\ chatLog[id].image = "failed"
    /\ ~chatLog[id].success
    /\ chatLog[other].commands = 1 /\ chatLog[other].envelopes = 1
    /\ chatLog[other].text # "sent" /\ ~chatLog[other].success

\* C35: while the bot is not ready (before 'ready', after 'disconnected',
\* from the start of a shutdown on), a send command that comes in sends no
\* text and no image and gets a result envelope with success = false, and a
\* chat message that comes in gets no reply.
C35_NotReadySendsNothing ==
  /\ [](\A s \in sending : ~s.ready => s.pc = "publish" /\ ~s.success)
  /\ [][\A s \in sending :
          ~s.ready /\ s \notin sending'
            => /\ [messageId |-> s.messageId, success |-> FALSE] \in results'
               /\ chatLog'[s.messageId].envelopes
                    = chatLog[s.messageId].envelopes + 1
               /\ ~chatLog'[s.messageId].success
               /\ chatLog'[s.messageId].text = "none"
               /\ chatLog'[s.messageId].image = "none"]_vars
  /\ [](inbound.pc = "handled" /\ ~inbound.message.isReady
         => inbound.out = Handled(<<>>, NoResponse))

\* during a shutdown: a command that came in when the bot was not ready has
\* its envelope that says failure, nothing was sent for it, and a chat
\* message that came in when the bot was not ready was handled
C35_Witness ==
  /\ clientProcess = "shuttingDown"
  /\ \E id \in DOMAIN chatLog :
       /\ chatLog[id].commands = 1 /\ chatLog[id].envelopes = 1
       /\ chatLog[id].text = "none" /\ ~chatLog[id].success
       /\ [messageId |-> id, success |-> FALSE] \in results
  /\ inbound.pc = "handled"
  /\ ~inbound.message.isReady

(* The broker's subscription *)

\* C36: the broker's publish of a send command is acknowledged only when
\* its subscription to the result channel is established, and the result
\* envelope the chat client publishes for a command is delivered to the
\* broker's result handler.
C36_SubscribedBeforePublish ==
  [][/\ \A c \in Callers :
          call[c].pc = "publish" /\ call'[c].pc = "wait" => isSubscribed
     /\ \A cmd \in inbox \ inbox' :
          \E success \in BOOLEAN :
            [messageId |-> cmd.messageId, success |-> success] \in results']_vars

(* The broker's calls and the retries *)

\* C37: what a sendTriggerToGroup call returns is settled by the first result
\* envelope for its id, whatever retryFailedMessages does meanwhile. An entry
\* is failed only by an envelope that says failure, and its retryCount is
\* raised only after that; so a call whose entry has a raised retryCount had
\* a failure as its first envelope, and it does not return success.
C37_FirstEnvelopeDecides ==
  [][\A c \in Callers :
       /\ call[c].pc = "wait"
       /\ call'[c].pc = "returned"
       /\ call[c].id \in DOMAIN messageQueue
       /\ messageQueue[call[c].id].retryCount > 0
       => call'[c].result # "success"]_vars

\* C38: an entry whose status is sent keeps that status: no result envelope
\* and no retryFailedMessages call makes it failed or pending again.
C38_SentIsFinal ==
  [][\A id \in DOMAIN messageQueue :
       messageQueue[id].status = "sent"
         => id \in DOMAIN messageQueue' /\ messageQueue'[id].status = "sent"]_vars

(* The list of groups *)

\* C39: a getAvailableGroups call returns a list only from a groups envelope
\* that came in after the call had published its own request, never one
\* that was stored before; and a call that sees no envelope in its 5 s
\* returns the empty list as a value.
C39_OnlyFreshGroups ==
  /\ [](\A c \in DOMAIN groups.calls :
         groups.calls[c].pc = "returned" /\ groups.calls[c].result = "list"
           => groups.calls[c].after >= groups.calls[c].request)
  /\ [][\A c \in DOMAIN groups.calls :
          /\ groups.calls[c].pc = "wait"
          /\ groups.groupsResponse.null
          /\ groups'.calls[c].pc = "returned"
          => groups'.calls[c].result = "empty"]_vars

(* The endpoint of a sync *)

\* C40: a sync job's fetch goes to the URL, with the key, that the services
\* table holds for the target when the handler reads the service at the
\* start of the processing, whatever the job's data say: a change of the
\* endpoint or the key made after the enqueue is used by the queued job.
C40_FetchUsesStoredEndpoint ==
  [][\A h \in Handlers :
       /\ (handler[h].pc = "idle" /\ handler'[h].pc # "idle"
             => handler'[h].service =
                  [url |-> servicesTable[jobs'[handler'[h].job].serviceId].resStatusApiUrl,
                   key |-> servicesTable[jobs'[handler'[h].job].serviceId].resStatusApiKey])
       /\ (handler[h].pc = "fetch" /\ handler'[h].pc # "fetch"
             => handler'[h].requested = handler[h].service)]_vars

\* a job that was enqueued with one URL and key has fetched from the other
\* URL with the other key, and the answer was a good one
C40_Witness ==
  \E h \in Handlers :
    /\ handler[h].response = "ok"
    /\ handler[h].requested.url # jobs[handler[h].job].resStatusApiUrl
    /\ handler[h].requested.key # jobs[handler[h].job].resStatusApiKey
    /\ handler[h].requested.url = servicesTable[ServiceOf(h)].resStatusApiUrl

====
